---- MODULE Spec2Model ----
(***************************************************************************)
(* A model of the reference guards, the value union and the descriptor     *)
(* resolution of the jni-rs wrapper (src/src/wrapper).                     *)
(*                                                                         *)
(*   Spec       GlobalRef: clone / deref / drop of one global reference    *)
(*              shared by several threads (objects/global_ref.rs)          *)
(*   SpecLocal  AutoLocal: new / forget / drop (objects/auto_local.rs)     *)
(*   SpecValue  JValueOwned: construction and narrowing                    *)
(*              (objects/jvalueowned.rs, objects/jobject.rs)               *)
(*   SpecDesc   descriptor resolution (descriptors/*.rs)                   *)
(***************************************************************************)
EXTENDS Integers, Sequences, FiniteSets, TLC

VARIABLES
    \* ---- GlobalRef (objects/global_ref.rs) ----
    strong,      \* strong count of the Arc<GlobalRefGuard>
    held,        \* held[t]: GlobalRef handles thread t owns
    clones,      \* number of clone() calls made so far (N)
    dropped,     \* number of GlobalRef handles dropped so far
    pc,          \* pc[t]: position of thread t inside GlobalRefGuard::drop
    attached,    \* attached[t]: thread t has a JNIEnv (is attached to the VM)
    guardHeld,   \* guardHeld[t]: t holds the AttachGuard of a temporary attach
    res,         \* res[t]: the `res` local of GlobalRefGuard::drop
    events,      \* the VM calls made by GlobalRefGuard::drop, in order
    globalLive,  \* the VM still has the global reference registered
    lastDeref,   \* what the latest deref() observed
    log,         \* messages written with warn! / debug!
    outcome,     \* outcome[t]: how the latest drop left its caller
    \* ---- AutoLocal (objects/auto_local.rs) ----
    localRefs,    \* the local references live in the JNIEnv's table
    guardState,   \* guardState[g]: "none", "wrapped", "forgotten", "dropped"
    guardObj,     \* guardObj[g]: raw pointer of the guard's obj field
    forgetRet,    \* forgetRet[g]: what forget() returned
    localDeletes, \* localDeletes[g]: delete_local_ref calls made for g
    localRes,     \* localRes[g]: the `res` local of AutoLocal::drop
    localLogged,  \* localLogged[g]: debug! messages written by g's drop
    localOutcome, \* localOutcome[g]: how g's drop left its caller
    \* ---- JValueOwned (objects/jvalueowned.rs) ----
    vnative,      \* the native value the union was constructed from
    jv,           \* the value union
    vacc,         \* the narrowing applied to it
    vres,         \* what the narrowing returned
    vjni,         \* the jvalue to_jni made of the union
    \* ---- descriptor resolution (descriptors/*.rs) ----
    dRefs,        \* the local references live in the JNIEnv's table
    dDesc,        \* the descriptor of the latest lookup
    dRes,         \* what the latest lookup returned
    dCalls,       \* the foreign calls made by the latest lookup and by the
                  \* drop of its result, in order
    dBefore,      \* the table as it was when the latest lookup began
    dLive,        \* the value the latest lookup returned is still in scope
    dLookups,     \* number of lookups made so far
    dDrop,        \* the latest drop of a lookup's result: what was resolved
                  \* and dropped, the table before the lookup, the calls made
    \* ---- JMap and JMapIter (objects/jmap.rs) ----
    mMap,         \* the foreign map: mMap[k] is the value of key k, or NoVal
    mTable,       \* the local reference table: pairs <<raw pointer, object>>
    mAlloc,       \* the raw pointer of the latest local reference created
    mRemaining,   \* the entries the foreign iterator has not returned yet
    mAdapter,     \* the JMap, once from_env has returned it
    mIter,        \* the JMapIter, once iter() has returned it
    mOp,          \* the latest operation on the adapter or its iterator
    mRet,         \* what the latest operation returned
    mCalls,       \* the foreign calls made by the latest operation, in order
    mPrevMap,     \* the foreign map as it was when the latest operation began
    mPrevTable,   \* the table as it was when the latest operation began
    mYielded,     \* the items the iterator has produced so far, in order
    mEnded,       \* a next() of the iterator has returned no item
    mOps,         \* number of operations made so far
    mFailures     \* number of foreign calls that have failed so far

gvars == <<strong, held, clones, dropped, pc, attached, guardHeld, res,
           events, globalLive, lastDeref, log, outcome>>

lvars == <<localRefs, guardState, guardObj, forgetRet, localDeletes,
           localRes, localLogged, localOutcome>>

vvars == <<vnative, jv, vacc, vres, vjni>>

dvars == <<dRefs, dDesc, dRes, dCalls, dBefore, dLive, dLookups, dDrop>>

mvars == <<mMap, mTable, mAlloc, mRemaining, mAdapter, mIter, mOp, mRet,
           mCalls, mPrevMap, mPrevTable, mYielded, mEnded, mOps,
           mFailures>>

vars == <<gvars, lvars, vvars, dvars, mvars>>

\* ------------------------------------------------------------------ bounds
MaxClones == 2
NumGuards == 2
NumPtrs == 3
MaxMapOps == 5
MaxLookups == 1
MaxFailures == 1

Threads == {"t1", "t2", "t3"}
Guards == 1..NumGuards
Ptrs == 1..NumPtrs

\* std::ptr::null_mut(): the raw pointer of the foreign null.
NULL == 0

\* The value of a variable no operation has set yet.
None == [tag |-> "None"]

\* Option<T>: Some(x); the absent state is None.
Some(x) == [tag |-> "Some", val |-> x]

\* ------------------------------------------------------- GlobalRef model

\* A clone that shares the guard without counting itself.
ArcClone_NoCount(n) == n

\* #[derive(Clone)] on GlobalRef { inner: Arc<GlobalRefGuard> }: clone adds
\* one strong reference and yields one more handle.
ArcClone(n) == n + 1

\* A guard torn down one handle too early.
ArcIsLast_OffByOne(n) == n <= 2

\* Dropping a handle releases one strong reference; the guard itself is
\* dropped by the handle that releases the last one.
ArcIsLast(n) == n = 1

\* A drop that attaches whatever get_env answered.
AfterGetEnv_AlwaysAttach(r) == "attach"

\* match self.vm.get_env() { Ok(env) => drop_impl(..), Err(_) => { warn!(..);
\* self.vm.attach_current_thread().and_then(..) } }: the next step of drop.
AfterGetEnv(r) == IF r = "Ok" THEN "drop_impl" ELSE "attach"

\* match self.vm.get_env(): Ok(env) when the calling thread is attached.
get_env(t) == IF attached[t] THEN "Ok" ELSE "Err"

\* if let Err(err) = res { debug!(...) }
LogRes(r) == IF r = "Err" THEN <<"debug: error dropping global ref">> ELSE <<>>

GlobalInit ==
    /\ strong = 1
    /\ held \in {[t \in Threads |-> IF t = o THEN 1 ELSE 0] : o \in Threads}
    /\ clones = 0
    /\ dropped = 0
    /\ pc = [t \in Threads |-> "idle"]
    /\ attached \in [Threads -> BOOLEAN]
    /\ guardHeld = [t \in Threads |-> FALSE]
    /\ res = [t \in Threads |-> "none"]
    /\ events = <<>>
    /\ globalLive = TRUE
    /\ lastDeref = [by |-> "none", dropped |-> 0, live |-> TRUE]
    /\ log = <<>>
    /\ outcome = [t \in Threads |-> "none"]

\* GlobalRef::clone by thread t; the clone is kept or sent to thread u.
GlobalRef_clone(t, u) ==
    /\ pc[t] = "idle"
    /\ held[t] > 0
    /\ clones < MaxClones
    /\ strong' = ArcClone(strong)
    /\ held' = [held EXCEPT ![u] = @ + 1]
    /\ clones' = clones + 1
    /\ UNCHANGED <<dropped, pc, attached, guardHeld, res, events, globalLive,
                   lastDeref, log, outcome>>
    /\ UNCHANGED <<lvars, vvars, dvars, mvars>>

\* GlobalRef::deref by thread t: reads inner.obj.
GlobalRef_deref(t) ==
    /\ pc[t] = "idle"
    /\ held[t] > 0
    /\ lastDeref' = [by |-> t, dropped |-> dropped, live |-> globalLive]
    /\ UNCHANGED <<strong, held, clones, dropped, pc, attached, guardHeld,
                   res, events, globalLive, log, outcome>>
    /\ UNCHANGED <<lvars, vvars, dvars, mvars>>

\* Drop of one GlobalRef handle by thread t.
GlobalRef_drop(t) ==
    /\ pc[t] = "idle"
    /\ held[t] > 0
    /\ held' = [held EXCEPT ![t] = @ - 1]
    /\ strong' = strong - 1
    /\ dropped' = dropped + 1
    /\ IF ArcIsLast(strong)
       THEN /\ pc' = [pc EXCEPT ![t] = "get_env"]
            /\ outcome' = [outcome EXCEPT ![t] = "running"]
       ELSE UNCHANGED <<pc, outcome>>
    /\ UNCHANGED <<clones, attached, guardHeld, res, events, globalLive,
                   lastDeref, log>>
    /\ UNCHANGED <<lvars, vvars, dvars, mvars>>

\* GlobalRefGuard::drop, `match self.vm.get_env()`.
Guard_get_env(t) ==
    /\ pc[t] = "get_env"
    /\ events' = Append(events, <<t, "GetEnv", get_env(t)>>)
    /\ pc' = [pc EXCEPT ![t] = AfterGetEnv(get_env(t))]
    /\ log' = IF AfterGetEnv(get_env(t)) = "attach"
              THEN Append(log, "warn: dropping a GlobalRef in a detached thread")
              ELSE log
    /\ UNCHANGED <<strong, held, clones, dropped, attached, guardHeld, res,
                   globalLive, lastDeref, outcome>>
    /\ UNCHANGED <<lvars, vvars, dvars, mvars>>

\* An attach whose failure is followed by the release all the same.
Guard_attach_DeletesAnyway(t) ==
    /\ pc[t] = "attach"
    /\ \E ok \in BOOLEAN :
        /\ events' = Append(events, <<t, "AttachCurrentThread", IF ok THEN "Ok" ELSE "Err">>)
        /\ IF ok
           THEN /\ attached' = [attached EXCEPT ![t] = TRUE]
                /\ guardHeld' = [guardHeld EXCEPT ![t] = TRUE]
                /\ UNCHANGED res
           ELSE /\ res' = [res EXCEPT ![t] = "Err"]
                /\ UNCHANGED <<attached, guardHeld>>
        /\ pc' = [pc EXCEPT ![t] = "drop_impl"]
    /\ UNCHANGED <<strong, held, clones, dropped, globalLive, lastDeref, log,
                   outcome>>
    /\ UNCHANGED <<lvars, vvars, dvars, mvars>>

\* self.vm.attach_current_thread(): attaches the thread and hands out an
\* AttachGuard, or fails.
Guard_attach(t) ==
    /\ pc[t] = "attach"
    /\ \E ok \in BOOLEAN :
        /\ events' = Append(events, <<t, "AttachCurrentThread", IF ok THEN "Ok" ELSE "Err">>)
        /\ IF ok
           THEN /\ attached' = [attached EXCEPT ![t] = TRUE]
                /\ guardHeld' = [guardHeld EXCEPT ![t] = TRUE]
                /\ pc' = [pc EXCEPT ![t] = "drop_impl"]
                /\ UNCHANGED res
           ELSE /\ res' = [res EXCEPT ![t] = "Err"]
                /\ pc' = [pc EXCEPT ![t] = "log"]
                /\ UNCHANGED <<attached, guardHeld>>
    /\ UNCHANGED <<strong, held, clones, dropped, globalLive, lastDeref, log,
                   outcome>>
    /\ UNCHANGED <<lvars, vvars, dvars, mvars>>

\* drop_impl: jni_unchecked!(internal, DeleteGlobalRef, global_ref); Ok(())
Guard_drop_impl(t) ==
    /\ pc[t] = "drop_impl"
    /\ events' = Append(events, <<t, "DeleteGlobalRef", "Ok">>)
    /\ globalLive' = FALSE
    /\ res' = [res EXCEPT ![t] = "Ok"]
    /\ pc' = [pc EXCEPT ![t] = IF guardHeld[t] THEN "detach" ELSE "log"]
    /\ UNCHANGED <<strong, held, clones, dropped, attached, guardHeld,
                   lastDeref, log, outcome>>
    /\ UNCHANGED <<lvars, vvars, dvars, mvars>>

\* The AttachGuard taken by the and_then closure goes out of scope when the
\* closure returns: the thread is detached again.
Guard_detach(t) ==
    /\ pc[t] = "detach"
    /\ events' = Append(events, <<t, "DetachCurrentThread", "Ok">>)
    /\ attached' = [attached EXCEPT ![t] = FALSE]
    /\ guardHeld' = [guardHeld EXCEPT ![t] = FALSE]
    /\ pc' = [pc EXCEPT ![t] = "log"]
    /\ UNCHANGED <<strong, held, clones, dropped, res, globalLive, lastDeref,
                   log, outcome>>
    /\ UNCHANGED <<lvars, vvars, dvars, mvars>>

\* if let Err(err) = res { debug!(..) }; drop returns ().
Guard_log(t) ==
    /\ pc[t] = "log"
    /\ log' = log \o LogRes(res[t])
    /\ outcome' = [outcome EXCEPT ![t] = "returned"]
    /\ pc' = [pc EXCEPT ![t] = "idle"]
    /\ UNCHANGED <<strong, held, clones, dropped, attached, guardHeld, res,
                   events, globalLive, lastDeref>>
    /\ UNCHANGED <<lvars, vvars, dvars, mvars>>

GlobalNext ==
    \E t \in Threads :
        \/ \E u \in Threads : GlobalRef_clone(t, u)
        \/ GlobalRef_deref(t)
        \/ GlobalRef_drop(t)
        \/ Guard_get_env(t)
        \/ Guard_attach(t)
        \/ Guard_drop_impl(t)
        \/ Guard_detach(t)
        \/ Guard_log(t)


\* ------------------------------------------------------- AutoLocal model

\* JObject::from_raw(raw): a handle with that raw pointer.
from_raw(raw) == [internal |-> raw]

\* JObject::into_raw
into_raw(obj) == obj.internal

\* JObject::null()
JObject_null == from_raw(NULL)

\* AutoLocal::as_ref: the wrapped handle.
AutoLocal_as_ref(g) == from_raw(guardObj[g])

\* A forget that lets `self` fall out of scope (no mem::forget).
ForgetPath_Drops(g) == [ret |-> from_raw(AutoLocal_as_ref(g).internal), deletes |-> 1]

\* AutoLocal::forget: let obj = JObject::from_raw(self.as_ref().internal);
\* mem::forget(self); obj.into().  `deletes` is the number of
\* delete_local_ref calls the path makes.
ForgetPath(g) == [ret |-> from_raw(AutoLocal_as_ref(g).internal), deletes |-> 0]

\* A drop that never reaches the runtime.
DropPath_NoDelete(g) == [obj |-> from_raw(AutoLocal_as_ref(g).internal), deletes |-> 0]

\* AutoLocal::drop up to the call: one delete_local_ref(obj) on the stored env.
DropPath(g) == [obj |-> from_raw(AutoLocal_as_ref(g).internal), deletes |-> 1]

\* A drop that unwraps the result of the release call.
DropMatch_Unwrap(r) == [logged |-> 0, outcome |-> IF r = "Err" THEN "raised" ELSE "returned"]

\* AutoLocal::drop, match res { Ok(()) => {}, Err(e) => debug!(..) }
DropMatch(r) == [logged |-> IF r = "Err" THEN 1 ELSE 0, outcome |-> "returned"]

LocalInit ==
    /\ localRefs = {}
    /\ guardState = [g \in Guards |-> "none"]
    /\ guardObj = [g \in Guards |-> NULL]
    /\ forgetRet = [g \in Guards |-> None]
    /\ localDeletes = [g \in Guards |-> 0]
    /\ localRes = [g \in Guards |-> "none"]
    /\ localLogged = [g \in Guards |-> 0]
    /\ localOutcome = [g \in Guards |-> "none"]

\* AutoLocal::new(env, obj) around a local reference the runtime just gave out.
AutoLocal_new(g, p) ==
    /\ guardState[g] = "none"
    /\ p \notin localRefs
    /\ localRefs' = localRefs \cup {p}
    /\ guardObj' = [guardObj EXCEPT ![g] = p]
    /\ guardState' = [guardState EXCEPT ![g] = "wrapped"]
    /\ UNCHANGED <<forgetRet, localDeletes, localRes, localLogged, localOutcome>>
    /\ UNCHANGED <<gvars, vvars, dvars, mvars>>

\* env.delete_local_ref(obj) answering r: the table after the call.
delete_local_ref(refs, obj, r) == IF r = "Ok" THEN refs \ {obj.internal} ELSE refs

AutoLocal_forget(g) ==
    /\ guardState[g] = "wrapped"
    /\ guardState' = [guardState EXCEPT ![g] = "forgotten"]
    /\ forgetRet' = [forgetRet EXCEPT ![g] = ForgetPath(g).ret]
    /\ localDeletes' = [localDeletes EXCEPT ![g] = @ + ForgetPath(g).deletes]
    /\ localRefs' = IF ForgetPath(g).deletes > 0
                    THEN delete_local_ref(localRefs, ForgetPath(g).ret, "Ok")
                    ELSE localRefs
    /\ UNCHANGED <<guardObj, localRes, localLogged, localOutcome>>
    /\ UNCHANGED <<gvars, vvars, dvars, mvars>>

AutoLocal_drop(g) ==
    /\ guardState[g] = "wrapped"
    /\ guardState' = [guardState EXCEPT ![g] = "dropped"]
    /\ localDeletes' = [localDeletes EXCEPT ![g] = @ + DropPath(g).deletes]
    /\ \E r \in {"Ok", "Err"} :
        IF DropPath(g).deletes > 0
        THEN /\ localRefs' = delete_local_ref(localRefs, DropPath(g).obj, r)
             /\ localRes' = [localRes EXCEPT ![g] = r]
             /\ localLogged' = [localLogged EXCEPT ![g] = @ + DropMatch(r).logged]
             /\ localOutcome' = [localOutcome EXCEPT ![g] = DropMatch(r).outcome]
        ELSE /\ r = "Ok"
             /\ localOutcome' = [localOutcome EXCEPT ![g] = "returned"]
             /\ UNCHANGED <<localRefs, localRes, localLogged>>
    /\ UNCHANGED <<guardObj, forgetRet>>
    /\ UNCHANGED <<gvars, vvars, dvars, mvars>>

LocalStep(g) ==
    \/ \E p \in Ptrs : AutoLocal_new(g, p)
    \/ AutoLocal_forget(g)
    \/ AutoLocal_drop(g)

LocalNext == \E g \in Guards : LocalStep(g)

\* ----------------------------------------------------- JValueOwned model

\* sys::JNI_FALSE and sys::JNI_TRUE, the two jboolean values of the runtime.
JNI_FALSE == 0
JNI_TRUE == 1

\* Result<T>
Ok(x) == [ok |-> TRUE, val |-> x]
Err(e) == [ok |-> FALSE, err |-> e]

\* Error::WrongJValueType(expected, actual)
WrongJValueType(expected, actual) == <<"WrongJValueType", expected, actual>>

\* The variants of JValueOwned.
VObject(o) == [tag |-> "Object", val |-> o]
VByte(x) == [tag |-> "Byte", val |-> x]
VChar(x) == [tag |-> "Char", val |-> x]
VShort(x) == [tag |-> "Short", val |-> x]
VInt(x) == [tag |-> "Int", val |-> x]
VLong(x) == [tag |-> "Long", val |-> x]
VBool(x) == [tag |-> "Bool", val |-> x]
VFloat(x) == [tag |-> "Float", val |-> x]
VDouble(x) == [tag |-> "Double", val |-> x]
VVoid == [tag |-> "Void", val |-> <<>>]

\* JValueOwned::type_name
type_name(v) ==
    CASE v.tag = "Void" -> "void"
      [] v.tag = "Object" -> "object"
      [] v.tag = "Byte" -> "byte"
      [] v.tag = "Char" -> "char"
      [] v.tag = "Short" -> "short"
      [] v.tag = "Int" -> "int"
      [] v.tag = "Long" -> "long"
      [] v.tag = "Bool" -> "bool"
      [] v.tag = "Float" -> "float"
      [] v.tag = "Double" -> "double"

\* An object accessor that treats the null handle as a failure.
acc_l_RejectsNull(v) ==
    IF v.tag = "Object" /\ v.val.internal # NULL THEN Ok(v.val)
    ELSE Err(WrongJValueType("object", type_name(v)))

\* JValueOwned::l
acc_l(v) == IF v.tag = "Object" THEN Ok(v.val)
        ELSE Err(WrongJValueType("object", type_name(v)))

\* A boolean accessor with the comparison inverted.
acc_z_Inverted(v) ==
    IF v.tag = "Bool" THEN Ok(v.val = JNI_FALSE)
    ELSE Err(WrongJValueType("bool", type_name(v)))

\* JValueOwned::z
acc_z(v) == IF v.tag = "Bool" THEN Ok(v.val = JNI_TRUE)
        ELSE Err(WrongJValueType("bool", type_name(v)))

\* A byte accessor that also takes the byte of a boolean.
acc_b_CoercesBool(v) ==
    IF v.tag \in {"Byte", "Bool"} THEN Ok(v.val)
    ELSE Err(WrongJValueType("jbyte", type_name(v)))

\* JValueOwned::b
acc_b(v) == IF v.tag = "Byte" THEN Ok(v.val)
        ELSE Err(WrongJValueType("jbyte", type_name(v)))

\* JValueOwned::c
acc_c(v) == IF v.tag = "Char" THEN Ok(v.val)
        ELSE Err(WrongJValueType("jchar", type_name(v)))

\* JValueOwned::d
acc_d(v) == IF v.tag = "Double" THEN Ok(v.val)
        ELSE Err(WrongJValueType("jdouble", type_name(v)))

\* JValueOwned::f
acc_f(v) == IF v.tag = "Float" THEN Ok(v.val)
        ELSE Err(WrongJValueType("jfloat", type_name(v)))

\* JValueOwned::i
acc_i(v) == IF v.tag = "Int" THEN Ok(v.val)
        ELSE Err(WrongJValueType("jint", type_name(v)))

\* JValueOwned::j
acc_j(v) == IF v.tag = "Long" THEN Ok(v.val)
        ELSE Err(WrongJValueType("jlong", type_name(v)))

\* JValueOwned::s
acc_s(v) == IF v.tag = "Short" THEN Ok(v.val)
        ELSE Err(WrongJValueType("jshort", type_name(v)))

\* JValueOwned::v
acc_v(u) == IF u.tag = "Void" THEN Ok(<<>>)
        ELSE Err(WrongJValueType("void", type_name(u)))

\* impl TryFrom<JValueOwned> for T: try_from(value) for the target type T.
try_from(T, u) ==
    CASE T = "JObject" ->
           IF u.tag = "Object" THEN Ok(u.val) ELSE Err(WrongJValueType("object", type_name(u)))
      [] T = "jboolean" ->
           IF u.tag = "Bool" THEN Ok(u.val) ELSE Err(WrongJValueType("bool", type_name(u)))
      [] T = "jchar" ->
           IF u.tag = "Char" THEN Ok(u.val) ELSE Err(WrongJValueType("char", type_name(u)))
      [] T = "jshort" ->
           IF u.tag = "Short" THEN Ok(u.val) ELSE Err(WrongJValueType("short", type_name(u)))
      [] T = "jfloat" ->
           IF u.tag = "Float" THEN Ok(u.val) ELSE Err(WrongJValueType("float", type_name(u)))
      [] T = "jdouble" ->
           IF u.tag = "Double" THEN Ok(u.val) ELSE Err(WrongJValueType("double", type_name(u)))
      [] T = "jint" ->
           IF u.tag = "Int" THEN Ok(u.val) ELSE Err(WrongJValueType("int", type_name(u)))
      [] T = "jlong" ->
           IF u.tag = "Long" THEN Ok(u.val) ELSE Err(WrongJValueType("long", type_name(u)))
      [] T = "jbyte" ->
           IF u.tag = "Byte" THEN Ok(u.val) ELSE Err(WrongJValueType("byte", type_name(u)))
      [] T = "unit" ->
           IF u.tag = "Void" THEN Ok(<<>>) ELSE Err(WrongJValueType("void", type_name(u)))

\* impl From<T> for JValueOwned: from(other) for the source type T.
from(T, other) ==
    CASE T = "JObject" -> VObject(other)
      [] T = "bool" -> VBool(IF other THEN JNI_TRUE ELSE JNI_FALSE)
      [] T = "jboolean" -> VBool(other)
      [] T = "jchar" -> VChar(other)
      [] T = "jshort" -> VShort(other)
      [] T = "jfloat" -> VFloat(other)
      [] T = "jdouble" -> VDouble(other)
      [] T = "jint" -> VInt(other)
      [] T = "jlong" -> VLong(other)
      [] T = "jbyte" -> VByte(other)
      [] T = "unit" -> VVoid

\* `x as i8` for a jboolean (u8) x: the same byte read as a signed one.
AsI8(x) == IF x >= 128 THEN x - 256 ELSE x

\* The foreign union sys::jvalue: the field that was written and its value.
jvalue(field, x) == [field |-> field, val |-> x]

\* JValueOwned::to_jni
to_jni(v) ==
    CASE v.tag = "Object" -> jvalue("l", v.val.internal)
      [] v.tag = "Byte" -> jvalue("b", v.val)
      [] v.tag = "Char" -> jvalue("c", v.val)
      [] v.tag = "Short" -> jvalue("s", v.val)
      [] v.tag = "Int" -> jvalue("i", v.val)
      [] v.tag = "Long" -> jvalue("j", v.val)
      [] v.tag = "Bool" -> jvalue("b", AsI8(v.val))
      [] v.tag = "Float" -> jvalue("f", v.val)
      [] v.tag = "Double" -> jvalue("d", v.val)
      [] v.tag = "Void" -> jvalue("l", NULL)

\* The native values the unions are built from.  64-bit values are written
\* as a pair of 32-bit words <<high, low>>; floats by their IEEE-754 bits
\* (0.0, 1.0, -1.5 and a NaN).
NativeValues(T) ==
    CASE T = "JObject" -> {from_raw(p) : p \in {NULL} \cup Ptrs}
      [] T = "bool" -> BOOLEAN
      [] T = "jboolean" -> {0, 1, 2, 255}
      [] T = "jchar" -> {0, 65, 65535}
      [] T = "jshort" -> {-32768, -1, 0, 32767}
      [] T = "jfloat" -> {0, 1065353216, -1077936128, 2143289344}
      [] T = "jdouble" -> {<<0, 0>>, <<1072693248, 0>>, <<2146959360, 0>>}
      [] T = "jint" -> {-2147483647, -1, 0, 2147483647}
      [] T = "jlong" -> {<<0, 0>>, <<-1, -1>>, <<2147483647, -1>>, <<0, 1>>}
      [] T = "jbyte" -> {-128, -1, 0, 127}
      [] T = "unit" -> {<<>>}

NativeTypes ==
    {"JObject", "bool", "jboolean", "jchar", "jshort", "jfloat", "jdouble",
     "jint", "jlong", "jbyte", "unit"}

Accessors == {"l", "z", "b", "c", "d", "f", "i", "j", "s", "v"}

TryFromTypes ==
    {"JObject", "jboolean", "jchar", "jshort", "jfloat", "jdouble", "jint",
     "jlong", "jbyte", "unit"}

\* A narrowing is an accessor method or a TryFrom conversion.
Narrowings == {<<"method", a>> : a \in Accessors} \cup {<<"try_from", T>> : T \in TryFromTypes}

Narrow(n, u) ==
    IF n[1] = "try_from" THEN try_from(n[2], u)
    ELSE CASE n[2] = "l" -> acc_l(u)
           [] n[2] = "z" -> acc_z(u)
           [] n[2] = "b" -> acc_b(u)
           [] n[2] = "c" -> acc_c(u)
           [] n[2] = "d" -> acc_d(u)
           [] n[2] = "f" -> acc_f(u)
           [] n[2] = "i" -> acc_i(u)
           [] n[2] = "j" -> acc_j(u)
           [] n[2] = "s" -> acc_s(u)
           [] n[2] = "v" -> acc_v(u)

ValueInit ==
    /\ vnative = None
    /\ jv = None
    /\ vacc = <<"none", "none">>
    /\ vres = None
    /\ vjni = None

\* JValueOwned::from(other)
Value_from(T, other) ==
    /\ vnative' = [type |-> T, val |-> other]
    /\ jv' = from(T, other)
    /\ vacc' = <<"none", "none">>
    /\ vres' = None
    /\ vjni' = None
    /\ UNCHANGED <<gvars, lvars, dvars, mvars>>

\* One of the narrowing accessors, applied to the union (which it consumes).
Value_narrow(n) ==
    /\ jv # None
    /\ vacc = <<"none", "none">>
    /\ vjni = None
    /\ vacc' = n
    /\ vres' = Narrow(n, jv)
    /\ UNCHANGED <<vnative, jv, vjni>>
    /\ UNCHANGED <<gvars, lvars, dvars, mvars>>

\* value.to_jni(), which consumes the union.
Value_to_jni ==
    /\ jv # None
    /\ vacc = <<"none", "none">>
    /\ vjni = None
    /\ vjni' = to_jni(jv)
    /\ UNCHANGED <<vnative, jv, vacc, vres>>
    /\ UNCHANGED <<gvars, lvars, dvars, mvars>>

ValueNext ==
    \/ \E T \in NativeTypes : \E other \in NativeValues(T) : Value_from(T, other)
    \/ \E n \in Narrowings : Value_narrow(n)
    \/ Value_to_jni

\* ------------------------------------------------ descriptor resolution

\* FromEnvValue::Reference(&T) and FromEnvValue::Owned(AutoLocal<T>)
Reference(obj) == [own |-> "Reference", raw |-> obj.internal]
Owned(obj) == [own |-> "Owned", raw |-> obj.internal]

\* FromEnvValue::as_raw
as_raw(val) == val.raw

\* JMethodID::from(jmethodID) (and the field identifier alike)
JMethodID(m) == [internal |-> m]

\* const DEFAULT_EXCEPTION_CLASS
DEFAULT_EXCEPTION_CLASS == "java/lang/RuntimeException"

ClassNames == {"java/lang/String", "no/such/Class",
               "java/lang/IllegalStateException", "java/lang/RuntimeException"}

\* The outcome of a call into the runtime: its result, the local reference
\* table after it, and the foreign calls made.
Outcome(r, refs, calls) == [res |-> r, refs |-> refs, calls |-> calls]

\* env.find_class(name): a new local reference to the class, or not-found.
find_class(name, refs) ==
    {Outcome(Ok(from_raw(p)), refs \cup {p}, << <<"FindClass", name>> >>) :
        p \in IF name = "no/such/Class" THEN {} ELSE Ptrs \ refs}
    \cup {Outcome(Err("ClassNotFound"), refs, << <<"FindClass", name>> >>)}

\* env.get_object_class(obj): a new local reference to the object's class,
\* or a failure (a null object, a full table).
get_object_class(obj, refs) ==
    {Outcome(Ok(from_raw(p)), refs \cup {p}, << <<"GetObjectClass", obj.internal>> >>) :
        p \in IF obj.internal = NULL THEN {} ELSE Ptrs \ (refs \cup {obj.internal})}
    \cup {Outcome(Err("NullPtr"), refs, << <<"GetObjectClass", obj.internal>> >>)}

\* A resolution by name that hands the class out as a borrowed reference.
OwnedOrErr_Borrowed(o) ==
    IF o.res.ok THEN Outcome(Ok(Reference(o.res.val)), o.refs, o.calls) ELSE o

\* `let class_obj = <call>?; Ok(FromEnvValue::Owned(env.auto_local(class_obj)))`
OwnedOrErr(o) ==
    IF o.res.ok THEN Outcome(Ok(Owned(o.res.val)), o.refs, o.calls) ELSE o

\* impl FromEnvObject<JClass> for T: Into<JNIString>
lookup_name(d, refs) == {OwnedOrErr(o) : o \in find_class(d.name, refs)}

\* impl FromEnvObject<JClass> for JObject
lookup_JObject(d, refs) == {OwnedOrErr(o) : o \in get_object_class(from_raw(d.raw), refs)}

\* A resolution of a borrowed handle that takes the reference over.
lookup_ref_TakesOwnership(d, refs) == {Outcome(Ok(Owned(from_raw(d.raw))), refs, <<>>)}

\* impl FromEnvObject<JClass> for &GlobalRef<JClass>, for &AutoLocal<JClass>,
\* and impl FromEnvObject<T> for &T: Ok(FromEnvValue::Reference(self.as_ref()))
lookup_ref(d, refs) == {Outcome(Ok(Reference(from_raw(d.raw))), refs, <<>>)}

\* impl FromEnvId<T> for T: Ok(self)
lookup_id(d, refs) == {Outcome(Ok(JMethodID(d.id)), refs, <<>>)}

RefForms == {"&T", "&GlobalRef", "&AutoLocal"}

\* Descriptor<JClass>::lookup(env), by the form of the class descriptor.
lookup_class(d, refs) ==
    CASE d.form = "name" -> lookup_name(d, refs)
      [] d.form = "JObject" -> lookup_JObject(d, refs)
      [] d.form \in RefForms -> lookup_ref(d, refs)

\* A `?` that goes on with the null handle after a failure.
AndThen_IgnoresErr(S, rest(_)) ==
    UNION {rest(IF o.res.ok THEN o ELSE [o EXCEPT !.res = Ok(JObject_null)]) : o \in S}

\* `let x = <call>?; <rest>`: the rest runs on Ok, an Err is returned at once.
AndThen(S, rest(_)) == UNION {IF o.res.ok THEN rest(o) ELSE {o} : o \in S}

\* The drop of a resolved class: an Owned value is an AutoLocal, whose drop
\* calls delete_local_ref; a Reference releases nothing.  The outcome o of
\* the function that held the class is completed by the release.
Release(val, o) ==
    IF val.own = "Owned"
    THEN {Outcome(o.res, delete_local_ref(o.refs, from_raw(as_raw(val)), r),
                  Append(o.calls, <<"DeleteLocalRef", as_raw(val)>>)) : r \in {"Ok", "Err"}}
    ELSE {o}

MemberKinds == {"method", "static_method", "field", "static_field"}

\* The JNI lookup function of each kind of member, and its failure.
MemberFn(kind) ==
    CASE kind = "method" -> "GetMethodID"
      [] kind = "static_method" -> "GetStaticMethodID"
      [] kind = "field" -> "GetFieldID"
      [] kind = "static_field" -> "GetStaticFieldID"

NotFound(kind) ==
    IF kind \in {"method", "static_method"} THEN "MethodNotFound" ELSE "FieldNotFound"

\* env.get_method_id / get_static_method_id / get_field_id /
\* get_static_field_id (class, name, sig): the class descriptor is resolved,
\* then one lookup call is made with the resulting class, the name and the
\* signature; the resolved class is dropped when the function returns.
get_member_id(kind, cd, name, sig, refs) ==
    AndThen(lookup_class(cd, refs), LAMBDA c :
        LET raw == as_raw(c.res.val)
            found == Outcome(Ok(JMethodID(<<kind, raw, name, sig>>)), c.refs,
                         Append(c.calls, <<MemberFn(kind), raw, name, sig, "Ok">>))
            failed == Outcome(Err(NotFound(kind)), c.refs,
                         Append(c.calls, <<MemberFn(kind), raw, name, sig, "Err">>))
        IN UNION {Release(c.res.val, o) :
                     o \in IF raw = NULL THEN {failed} ELSE {found, failed}})

\* impl FromEnvId<JMethodID / JStaticMethodID / JFieldID / JStaticFieldID>
\* for (T, U, V): env.get_*_id(self.0, self.1, self.2)
lookup_member(d, refs) == get_member_id(d.kind, d.class, d.name, d.sig, refs)

\* A (class, name, signature) method descriptor.
MethodTuple(cd, name, sig) ==
    [form |-> "member", kind |-> "method", class |-> cd, name |-> name, sig |-> sig]

\* A constructor lookup that passes the signature as the name.
lookup_ctor_Swapped(d, refs) == lookup_member(MethodTuple(d.class, d.sig, "<init>"), refs)

\* impl FromEnvId<JMethodID> for (T, Signature):
\* (self.0, "<init>", self.1).lookup(env)
lookup_ctor(d, refs) == lookup_member(MethodTuple(d.class, "<init>", d.sig), refs)

\* env.new_string(text): a new local reference to a new string.
new_string(text, refs) ==
    {Outcome(Ok(from_raw(q)), refs \cup {q}, << <<"NewString", text, q>> >>) :
        q \in Ptrs \ refs}
    \cup {Outcome(Err("JavaException"), refs, << <<"NewString", text, NULL>> >>)}

\* env.new_object(class, ctor_sig, args): the class descriptor is resolved,
\* then the constructor is invoked: a new local reference to the new
\* object, or the exception thrown; the resolved class is dropped when the
\* function returns.
new_object(cd, sig, args, refs) ==
    AndThen(lookup_class(cd, refs), LAMBDA c :
        LET raw == as_raw(c.res.val)
            made == {Outcome(Ok(from_raw(p)), c.refs \cup {p},
                             Append(c.calls, <<"NewObject", raw, sig, args, p>>)) :
                        p \in IF raw = NULL THEN {} ELSE Ptrs \ c.refs}
            failed == Outcome(Err("JavaException"), c.refs,
                              Append(c.calls, <<"NewObject", raw, sig, args, NULL>>))
        IN UNION {Release(c.res.val, o) : o \in made \cup {failed}})

\* The signature of the constructor without arguments.
CtorSig_NoArg == "()V"

\* "(Ljava/lang/String;)V": the constructor that takes the message.
CtorSig == "(Ljava/lang/String;)V"

\* The outcome o of a step that began after the calls `before`.
After(before, o) == [o EXCEPT !.calls = before \o @]

\* A resolution of (C, M) that goes on to new_object after new_string failed.
lookup_pair_Continues(cd, msg, refs) ==
    AndThen_IgnoresErr(new_string(msg, refs), LAMBDA jmsg :
    AndThen({After(jmsg.calls, o) :
                o \in new_object(cd, CtorSig, <<jmsg.res.val.internal>>, jmsg.refs)},
            LAMBDA obj : {OwnedOrErr(obj)}))

\* impl FromEnvObject<JThrowable> for (C, M)
lookup_pair(cd, msg, refs) ==
    AndThen(new_string(msg, refs), LAMBDA jmsg :
    AndThen({After(jmsg.calls, o) :
                o \in new_object(cd, CtorSig, <<jmsg.res.val.internal>>, jmsg.refs)},
            LAMBDA obj : {OwnedOrErr(obj)}))

\* impl FromEnvObject<JThrowable> for Exception:
\* (self.class, self.msg).lookup(env)
lookup_Exception(d, refs) == lookup_pair([form |-> "name", name |-> d.class], d.msg, refs)

\* impl FromEnvObject<JThrowable> for &str, String and JNIString:
\* (DEFAULT_EXCEPTION_CLASS, self).lookup(env)
lookup_msg(d, refs) ==
    lookup_pair([form |-> "name", name |-> DEFAULT_EXCEPTION_CLASS], d.msg, refs)

MsgForms == {"&str", "String", "JNIString"}

\* The forms that resolve to an identifier.
IdForms == {"id", "member", "ctor"}

\* Descriptor::lookup(env), by the form of the descriptor.
lookup(d, refs) ==
    CASE d.form \in {"name", "JObject"} \cup RefForms -> lookup_class(d, refs)
      [] d.form = "id" -> lookup_id(d, refs)
      [] d.form = "member" -> lookup_member(d, refs)
      [] d.form = "ctor" -> lookup_ctor(d, refs)
      [] d.form = "pair" -> lookup_pair(d.class, d.msg, refs)
      [] d.form = "Exception" -> lookup_Exception(d, refs)
      [] d.form \in MsgForms -> lookup_msg(d, refs)

MemberNames == {"size", "<init>"}
MemberSigs == {"()V"}
Messages == {"bad state"}

\* The descriptors a caller can hand in, given the table: a class name, a
\* handle by value, a reference to a handle or to a guard, an identifier.
\* A local guard names a live local reference, a global guard a reference
\* that is not in the local table.
ClassDescriptors(refs) ==
    {[form |-> "name", name |-> n] : n \in ClassNames}
    \cup {[form |-> "JObject", raw |-> p] : p \in refs \cup {NULL}}
    \cup {[form |-> "&T", raw |-> p] : p \in refs \cup {NULL}}
    \cup {[form |-> "&AutoLocal", raw |-> p] : p \in refs}
    \cup {[form |-> "&GlobalRef", raw |-> p] : p \in Ptrs \ refs}

\* A (class, name, signature) tuple for each kind of member, a (class,
\* signature) pair for a constructor, and the exception descriptors: a
\* (class, message) pair, an Exception, a message alone.
Descriptors(refs) ==
    ClassDescriptors(refs)
    \cup {[form |-> "id", id |-> m] : m \in Ptrs}
    \cup {[form |-> "member", kind |-> k, class |-> cd, name |-> n, sig |-> g] :
             k \in MemberKinds, cd \in ClassDescriptors(refs),
             n \in MemberNames, g \in MemberSigs}
    \cup {[form |-> "ctor", class |-> cd, sig |-> g] :
             cd \in ClassDescriptors(refs), g \in MemberSigs}
    \cup {[form |-> "pair", class |-> cd, msg |-> m] :
             cd \in ClassDescriptors(refs), m \in Messages}
    \cup {[form |-> "Exception", class |-> n, msg |-> m] :
             n \in ClassNames, m \in Messages}
    \cup {[form |-> f, msg |-> m] : f \in MsgForms, m \in Messages}

DescInit ==
    /\ dRefs = {}
    /\ dDesc = None
    /\ dRes = None
    /\ dCalls = <<>>
    /\ dBefore = {}
    /\ dLive = FALSE
    /\ dLookups = 0
    /\ dDrop = None

\* A native method is entered with a local reference to one of its arguments.
Desc_new_local(p) ==
    /\ ~dLive
    /\ p \notin dRefs
    /\ dRefs' = dRefs \cup {p}
    /\ UNCHANGED <<dDesc, dRes, dCalls, dBefore, dLive, dLookups, dDrop>>
    /\ UNCHANGED <<gvars, lvars, vvars, mvars>>

\* desc.lookup(env)
Desc_lookup(d) ==
    /\ ~dLive
    /\ dLookups < MaxLookups
    /\ dLookups' = dLookups + 1
    /\ \E o \in lookup(d, dRefs) :
        /\ dDesc' = d
        /\ dRes' = o.res
        /\ dRefs' = o.refs
        /\ dCalls' = o.calls
        /\ dBefore' = dRefs
        /\ dLive' = TRUE
    /\ dDrop' = None
    /\ UNCHANGED <<gvars, lvars, vvars, mvars>>

\* What a drop leaves on record: the form of the descriptor that was
\* resolved, the result that was dropped, the table before the lookup and
\* after the drop, and the foreign calls the drop made.
Dropped(calls, refs) ==
    [form |-> dDesc.form, res |-> dRes, before |-> dBefore, after |-> refs,
     calls |-> calls]

\* The value the lookup returned goes out of scope: an Owned value is an
\* AutoLocal and its drop calls delete_local_ref; a Reference, an identifier
\* and an error release nothing.  The descriptor was consumed by the lookup
\* and the value is gone: what is left is the table.
Desc_drop(r) ==
    /\ dLive
    /\ dLive' = FALSE
    /\ IF dRes.ok /\ dDesc.form \notin IdForms /\ dRes.val.own = "Owned"
       THEN /\ dRefs' = delete_local_ref(dRefs, from_raw(as_raw(dRes.val)), r)
            /\ dDrop' = Dropped(<< <<"DeleteLocalRef", as_raw(dRes.val)>> >>, dRefs')
       ELSE /\ r = "Ok"
            /\ dDrop' = Dropped(<<>>, dRefs)
            /\ UNCHANGED dRefs
    /\ dDesc' = None
    /\ dRes' = None
    /\ dCalls' = <<>>
    /\ dBefore' = {}
    /\ UNCHANGED dLookups
    /\ UNCHANGED <<gvars, lvars, vvars, mvars>>

DescNext ==
    \/ \E p \in Ptrs : Desc_new_local(p)
    \/ \E d \in Descriptors(dRefs) : Desc_lookup(d)
    \/ \E r \in {"Ok", "Err"} : Desc_drop(r)

\* ------------------------------------------------------ JMap and JMapIter

Keys == {"x", "y"}
Vals == {"1", "2"}

\* The foreign null as the value of a key the map has no mapping for.
NoVal == "null"

\* The objects of the runtime: strings, classes, the map, its entry set, an
\* iterator, an entry.
JString(s) == <<"string", s>>
JClassObj(name) == <<"class", name>>
JMapObj == <<"map">>
JSetObj == <<"set">>
JIterObj == <<"iterator">>
JEntryObj(k, v) == <<"entry", k, v>>

\* The runtime as a call sees it: the foreign map, the local reference table,
\* the allocation counter, the foreign iterator, the calls logged so far.
Env(map, table, alloc, rem, calls) ==
    [map |-> map, table |-> table, alloc |-> alloc, rem |-> rem, calls |-> calls]

\* A foreign call and whether it returned normally.
Call(fn, args, ok) == [fn |-> fn, args |-> args, ok |-> ok]

\* A foreign method call that returned the value r.
CallRet(fn, args, r) == [fn |-> fn, args |-> args, ok |-> TRUE, ret |-> r]

\* The outcome of a step: its Result and the runtime after it.
MOut(r, e) == [res |-> r, env |-> e]

\* `let x = <step>?; <rest>`: the rest runs on Ok, an Err returns at once.
Try(S, rest(_, _)) ==
    UNION {IF o.res.ok THEN rest(o.res.val, o.env) ELSE {o} : o \in S}

Logged(e, c) == [e EXCEPT !.calls = Append(@, c)]

\* A new local reference to obj; its raw pointer is e.alloc + 1.
NewLocal(e, obj) ==
    [e EXCEPT !.table = @ \cup {<<e.alloc + 1, obj>>}, !.alloc = @ + 1]

Live(table) == {p[1] : p \in table}

\* The object a live raw pointer refers to.
ObjAt(table, raw) == CHOOSE o \in {p[2] : p \in {q \in table : q[1] = raw}} : TRUE

\* env.find_class(name)
m_find_class(name, e) ==
    {MOut(Ok(from_raw(e.alloc + 1)),
          NewLocal(Logged(e, Call("FindClass", <<name>>, TRUE)), JClassObj(name))),
     MOut(Err("ClassNotFound"), Logged(e, Call("FindClass", <<name>>, FALSE)))}

\* env.delete_local_ref(obj)
m_delete_local_ref(raw, e) ==
    [Logged(e, Call("DeleteLocalRef", <<raw>>, TRUE))
        EXCEPT !.table = {p \in @ : p[1] # raw}]

\* The drop of a FromEnvValue: an Owned value is an AutoLocal, whose drop
\* calls delete_local_ref; a Reference releases nothing.
m_drop(val, e) == IF val.own = "Owned" THEN m_delete_local_ref(as_raw(val), e) ELSE e

\* Descriptor<JClass>::lookup for the two forms jmap.rs uses: a class name
\* and a reference to an AutoLocal.
m_lookup_class(cd, e) ==
    IF cd.form = "name"
    THEN {IF o.res.ok THEN MOut(Ok(Owned(o.res.val)), o.env) ELSE o :
             o \in m_find_class(cd.name, e)}
    ELSE {MOut(Ok(Reference(from_raw(cd.raw))), e)}

\* env.get_method_id(class, name, sig): the class descriptor is resolved,
\* then one GetMethodID call is made with the resulting class; the resolved
\* class value is dropped when the function returns.
m_get_method_id(cd, name, sig, e) ==
    Try(m_lookup_class(cd, e), LAMBDA class, e1 :
        LET cls == ObjAt(e1.table, as_raw(class))[2]
            args == <<as_raw(class), name, sig>>
        IN {MOut(Ok(JMethodID(<<cls, name, sig>>)),
                 m_drop(class, Logged(e1, Call("GetMethodID", args, TRUE)))),
            MOut(Err("MethodNotFound"),
                 m_drop(class, Logged(e1, Call("GetMethodID", args, FALSE))))})

\* Descriptor<JMethodID>::lookup for the two forms jmap.rs uses: an
\* identifier (impl FromEnvId<T> for T: Ok(self)) and a (class, name,
\* signature) tuple (env.get_method_id).
m_lookup_method(md, e) ==
    IF md.form = "id" THEN {MOut(Ok(md.id), e)}
    ELSE m_get_method_id(md.class, md.name, md.sig, e)

\* What a foreign method returns: the foreign null, a boolean, an object.
JNullObj == <<"null">>
JBool(b) == <<"boolean", IF b THEN JNI_TRUE ELSE JNI_FALSE>>
JValOf(v) == IF v = NoVal THEN JNullObj ELSE JString(v)

\* The entries of the foreign map.
Entries(map) == {<<k, map[k]>> : k \in {x \in Keys : map[x] # NoVal}}

\* java.util.Map, Set, Iterator and Map.Entry: what the method `name` of the
\* object recv returns and how it leaves the runtime.  next() of an
\* exhausted iterator returns nothing (it throws).
java_call(recv, name, args, e) ==
    CASE name = "get" -> {<<JValOf(e.map[args[1]]), e>>}
      [] name = "put" ->
            {<<JValOf(e.map[args[1]]), [e EXCEPT !.map[args[1]] = args[2]]>>}
      [] name = "remove" ->
            {<<JValOf(e.map[args[1]]), [e EXCEPT !.map[args[1]] = NoVal]>>}
      [] name = "entrySet" -> {<<JSetObj, e>>}
      [] name = "iterator" -> {<<JIterObj, [e EXCEPT !.rem = Entries(e.map)]>>}
      [] name = "hasNext" -> {<<JBool(e.rem # {}), e>>}
      [] name = "next" ->
            {<<JEntryObj(x[1], x[2]), [e EXCEPT !.rem = @ \ {x}]>> : x \in e.rem}
      [] name = "getKey" -> {<<JString(recv[2]), e>>}
      [] name = "getValue" -> {<<JString(recv[3]), e>>}

\* The value a call hands back for what the method returned: the foreign
\* null is a null-valued handle, an object a new local reference.
Returned(r, e) ==
    CASE r[1] = "null" -> MOut(Ok(VObject(JObject_null)), e)
      [] r[1] = "boolean" -> MOut(Ok(VBool(r[2])), e)
      [] OTHER -> MOut(Ok(VObject(from_raw(e.alloc + 1))), NewLocal(e, r))

\* env.call_method_unchecked(obj, method_id, ret, args): the method
\* descriptor is resolved, then one Call<Type>MethodA call is made; the
\* result is the value the method returned, or the exception it threw.
m_call_method_unchecked(obj, md, ret, args, e) ==
    Try(m_lookup_method(md, e), LAMBDA mid, e1 :
        LET fn == "Call" \o ret \o "MethodA"
            cargs == <<obj, mid, args>>
            back(r) == LET out == Returned(r[1], r[2])
                       IN MOut(out.res, Logged(out.env, CallRet(fn, cargs, out.res.val)))
        IN {back(r) : r \in java_call(ObjAt(e1.table, obj), mid.internal[2], args, e1)}
           \cup {MOut(Err("JavaException"), Logged(e1, Call(fn, cargs, FALSE)))})

\* The class descriptor `&class` of an AutoLocal<JClass>.
ClassRef(raw) == [form |-> "&AutoLocal", raw |-> raw]

\* An Err return that leaves the guard's reference in the table.
DropOnErr_Leaks(S, raw) == S

\* An Err return of a function that holds the AutoLocal of `raw`: the guard
\* is dropped on the way out.
DropOnErr(S, raw) ==
    {IF o.res.ok THEN o ELSE MOut(o.res, m_delete_local_ref(raw, o.env)) : o \in S}

SigObjToObj == "(Ljava/lang/Object;)Ljava/lang/Object;"
SigPut == "(Ljava/lang/Object;Ljava/lang/Object;)Ljava/lang/Object;"

\* JMap::from_env(env, obj)
from_env(obj, e) ==
    Try(m_find_class("java/util/Map", e), LAMBDA class, e1 :
        DropOnErr(
            Try(m_get_method_id(ClassRef(class.internal), "get", SigObjToObj, e1),
                LAMBDA get, e2 :
            Try(m_get_method_id(ClassRef(class.internal), "put", SigPut, e2),
                LAMBDA put, e3 :
            Try(m_get_method_id(ClassRef(class.internal), "remove", SigObjToObj, e3),
                LAMBDA remove, e4 :
                {MOut(Ok([internal |-> obj, class |-> class.internal,
                          get |-> get, put |-> put, remove |-> remove]), e4)}))),
            class.internal))

\* A cached identifier as a method descriptor.
IdDesc(mid) == [form |-> "id", id |-> mid]

\* A method descriptor that names the method and has it looked up again.
CachedId_LooksUp(a, name) ==
    [form |-> "tuple", class |-> ClassRef(a.class), name |-> name, sig |-> SigObjToObj]

\* self.get, self.put, self.remove: the identifier cached by from_env.
CachedId(a, name) == IdDesc(a[name])

\* match result { Ok(val) => Ok(Some(val.l()?)),
\*                Err(e) => match e { Error::NullPtr(_) => Ok(None), _ => Err(e) } }
MapResult(o) ==
    IF o.res.ok
    THEN LET obj == acc_l(o.res.val)
         IN IF obj.ok THEN MOut(Ok(Some(obj.val)), o.env) ELSE MOut(obj, o.env)
    ELSE IF o.res.err = "NullPtr" THEN MOut(Ok(None), o.env) ELSE o

\* JMap::get(key)
JMap_get(a, k, e) ==
    {MapResult(o) :
        o \in m_call_method_unchecked(a.internal, CachedId(a, "get"), "Object", <<k>>, e)}

\* JMap::put(key, value)
JMap_put(a, k, v, e) ==
    {MapResult(o) :
        o \in m_call_method_unchecked(a.internal, CachedId(a, "put"), "Object", <<k, v>>, e)}

\* JMap::remove(key)
JMap_remove(a, k, e) ==
    {MapResult(o) :
        o \in m_call_method_unchecked(a.internal, CachedId(a, "remove"), "Object", <<k>>, e)}

\* `<call>?.l()?` and `<call>?.z()?`
ObjResult(S) == {IF o.res.ok THEN MOut(acc_l(o.res.val), o.env) ELSE o : o \in S}
BoolResult(S) == {IF o.res.ok THEN MOut(acc_z(o.res.val), o.env) ELSE o : o \in S}

\* A release made only on the way out of a successful call.
DropAtExit_OnOk(S, raw) ==
    {IF o.res.ok THEN MOut(o.res, m_delete_local_ref(raw, o.env)) ELSE o : o \in S}

\* The end of the scope of the AutoLocal of `raw`: the guard is dropped
\* whichever way the function returns.
DropAtExit(S, raw) == {MOut(o.res, m_delete_local_ref(raw, o.env)) : o \in S}

\* The capacity of the local frame of JMap::iter.
FrameCapacity == 16

\* env.with_local_frame(capacity, f): PushLocalFrame, the body, then
\* PopLocalFrame with the body's result: every local reference created since
\* the push is freed, and an Ok result is handed back as a new local
\* reference of the enclosing frame.
m_with_local_frame(capacity, f(_), e) ==
    LET outer(t) == {p \in t : p[1] \in Live(e.table)}
        pop(o) ==
            IF o.res.ok
            THEN LET obj == ObjAt(o.env.table, o.res.val.internal)
                     e1 == Logged(o.env, Call("PopLocalFrame", <<o.res.val.internal>>, TRUE))
                     e2 == [e1 EXCEPT !.table = outer(@)]
                 IN MOut(Ok(from_raw(e2.alloc + 1)), NewLocal(e2, obj))
            ELSE LET e1 == Logged(o.env, Call("PopLocalFrame", <<NULL>>, TRUE))
                 IN MOut(o.res, [e1 EXCEPT !.table = outer(@)])
    IN {pop(o) : o \in f(Logged(e, Call("PushLocalFrame", <<capacity>>, TRUE)))}
       \cup {MOut(Err("JavaException"), Logged(e, Call("PushLocalFrame", <<capacity>>, FALSE)))}

\* A (class, name, signature) tuple as a method descriptor.
TupleDesc(cd, name, sig) == [form |-> "tuple", class |-> cd, name |-> name, sig |-> sig]

ClassName(name) == [form |-> "name", name |-> name]

\* The closure JMap::iter runs in its frame: entrySet() on the map, then
\* iterator() on the entry set.
IterBody(a, e) ==
    Try(ObjResult(m_call_method_unchecked(a.internal,
            TupleDesc(ClassRef(a.class), "entrySet", "()Ljava/util/Set;"),
            "Object", <<>>, e)), LAMBDA entry_set, e1 :
    Try(ObjResult(m_call_method_unchecked(entry_set.internal,
            TupleDesc(ClassName("java/util/Set"), "iterator", "()Ljava/util/Iterator;"),
            "Object", <<>>, e1)), LAMBDA iter, e2 :
        {MOut(Ok(iter), e2)}))

\* An iter() that makes the two chained calls in the ambient scope.
IterFrame_Ambient(a, e) == IterBody(a, e)

\* self.env.with_local_frame(16, || { ... })
IterFrame(a, e) == m_with_local_frame(FrameCapacity, LAMBDA f : IterBody(a, f), e)

\* JMap::iter
JMap_iter(a, e) ==
    Try(m_find_class("java/util/Iterator", e), LAMBDA iter_class, e1 :
    DropAtExit(
        Try(m_get_method_id(ClassRef(iter_class.internal), "hasNext", "()Z", e1),
            LAMBDA has_next, e2 :
        Try(m_get_method_id(ClassRef(iter_class.internal), "next",
                            "()Ljava/lang/Object;", e2),
            LAMBDA next, e3 :
        Try(m_find_class("java/util/Map$Entry", e3), LAMBDA entry_class, e4 :
        DropAtExit(
            Try(m_get_method_id(ClassRef(entry_class.internal), "getKey",
                                "()Ljava/lang/Object;", e4),
                LAMBDA get_key, e5 :
            Try(m_get_method_id(ClassRef(entry_class.internal), "getValue",
                                "()Ljava/lang/Object;", e5),
                LAMBDA get_value, e6 :
            Try(IterFrame(a, e6), LAMBDA iter, e7 :
                {MOut(Ok([has_next |-> has_next, next |-> next,
                          get_key |-> get_key, get_value |-> get_value,
                          iter |-> iter.internal]), e7)}))),
            entry_class.internal)))),
        iter_class.internal))

\* A test that never takes the iterator for exhausted.
Exhausted_Never(has_next) == FALSE

\* if !has_next { return Ok(None); }
Exhausted(has_next) == ~has_next

\* A produced pair with the key and the value swapped.
Item_Swapped(key, value) == Some(<<value, key>>)

\* Ok(Some((key, value)))
Item(key, value) == Some(<<key, value>>)

\* JMapIter::get_next
get_next(it, e) ==
    Try(BoolResult(m_call_method_unchecked(it.iter, IdDesc(it.has_next),
                                           "Boolean", <<>>, e)),
        LAMBDA has_next, e1 :
        IF Exhausted(has_next) THEN {MOut(Ok(None), e1)}
        ELSE
        Try(ObjResult(m_call_method_unchecked(it.iter, IdDesc(it.next),
                                              "Object", <<>>, e1)),
            LAMBDA next, e2 :
        DropAtExit(
            Try(ObjResult(m_call_method_unchecked(next.internal, IdDesc(it.get_key),
                                                  "Object", <<>>, e2)),
                LAMBDA key, e3 :
            Try(ObjResult(m_call_method_unchecked(next.internal, IdDesc(it.get_value),
                                                  "Object", <<>>, e3)),
                LAMBDA value, e4 :
                {MOut(Ok(Item(key, value)), e4)})),
            next.internal)))

\* A match that hands the error of get_next to the caller.
NextMatch_Propagates(r) == IF r.ok THEN r.val ELSE [tag |-> "Err", val |-> r.err]

\* match self.get_next() { Ok(Some(n)) => Some(n), _ => None }
NextMatch(r) == IF r.ok /\ r.val.tag = "Some" THEN Some(r.val.val) ELSE None

\* <JMapIter as Iterator>::next
Iterator_next(it, e) == {MOut(NextMatch(o.res), o.env) : o \in get_next(it, e)}

\* The local reference the native method received for the map object.
MapRaw == 1

EnvNow == Env(mMap, mTable, mAlloc, mRemaining, <<>>)

\* A native method that was handed a map with the content `map`.
MapStart(map) ==
    /\ mMap = map
    /\ mTable = {<<MapRaw, JMapObj>>}
    /\ mAlloc = MapRaw
    /\ mRemaining = {}
    /\ mAdapter = None
    /\ mIter = None
    /\ mOp = None
    /\ mRet = None
    /\ mCalls = <<>>
    /\ mPrevMap = map
    /\ mPrevTable = {<<MapRaw, JMapObj>>}
    /\ mYielded = <<>>
    /\ mEnded = FALSE
    /\ mOps = 0
    /\ mFailures = 0

MapInit == MapStart([k \in Keys |-> NoVal])

IsFailure(c) == ~c.ok

\* The operation op returned o.res and left the runtime as o.env.
Returns(op, o) ==
    /\ mOps < MaxMapOps
    /\ mOps' = mOps + 1
    /\ mFailures' = mFailures + Len(SelectSeq(o.env.calls, IsFailure))
    /\ mFailures' <= MaxFailures
    /\ mOp' = op
    /\ mRet' = o.res
    /\ mCalls' = o.env.calls
    /\ mMap' = o.env.map
    /\ mTable' = o.env.table
    /\ mAlloc' = o.env.alloc
    /\ mRemaining' = o.env.rem
    /\ mPrevMap' = mMap
    /\ mPrevTable' = mTable

\* let map = JMap::from_env(env, obj)
Map_from_env ==
    /\ mAdapter = None
    /\ \E o \in from_env(MapRaw, EnvNow) :
        /\ Returns([op |-> "from_env"], o)
        /\ mAdapter' = IF o.res.ok THEN o.res.val ELSE None
    /\ UNCHANGED <<mIter, mYielded, mEnded>>
    /\ UNCHANGED <<gvars, lvars, vvars, dvars>>

\* map.get(key)
Map_get(k) ==
    /\ mAdapter # None
    /\ \E o \in JMap_get(mAdapter, k, EnvNow) : Returns([op |-> "get", key |-> k], o)
    /\ UNCHANGED <<mAdapter, mIter, mYielded, mEnded>>
    /\ UNCHANGED <<gvars, lvars, vvars, dvars>>

\* map.put(key, value); the map is not changed while an iterator is in use.
Map_put(k, v) ==
    /\ mAdapter # None
    /\ mIter = None
    /\ \E o \in JMap_put(mAdapter, k, v, EnvNow) :
        Returns([op |-> "put", key |-> k, value |-> v], o)
    /\ UNCHANGED <<mAdapter, mIter, mYielded, mEnded>>
    /\ UNCHANGED <<gvars, lvars, vvars, dvars>>

\* map.remove(key); the map is not changed while an iterator is in use.
Map_remove(k) ==
    /\ mAdapter # None
    /\ mIter = None
    /\ \E o \in JMap_remove(mAdapter, k, EnvNow) :
        Returns([op |-> "remove", key |-> k], o)
    /\ UNCHANGED <<mAdapter, mIter, mYielded, mEnded>>
    /\ UNCHANGED <<gvars, lvars, vvars, dvars>>

\* let it = map.iter()
Map_iter ==
    /\ mAdapter # None
    /\ mIter = None
    /\ \E o \in JMap_iter(mAdapter, EnvNow) :
        /\ Returns([op |-> "iter"], o)
        /\ mIter' = IF o.res.ok THEN o.res.val ELSE None
    /\ mYielded' = <<>>
    /\ mEnded' = FALSE
    /\ UNCHANGED mAdapter
    /\ UNCHANGED <<gvars, lvars, vvars, dvars>>

\* The strings a produced pair of handles refers to.
PairOf(item, table) ==
    <<ObjAt(table, item.val[1].internal)[2], ObjAt(table, item.val[2].internal)[2]>>

\* it.next()
Iter_next ==
    /\ mIter # None
    /\ \E o \in Iterator_next(mIter, EnvNow) :
        /\ Returns([op |-> "next"], o)
        /\ mYielded' = IF o.res.tag = "Some"
                       THEN Append(mYielded, PairOf(o.res, o.env.table))
                       ELSE mYielded
        /\ mEnded' = (mEnded \/ o.res.tag # "Some")
    /\ UNCHANGED <<mAdapter, mIter>>
    /\ UNCHANGED <<gvars, lvars, vvars, dvars>>

\* The iterator goes out of scope: its AutoLocal deletes the reference to
\* the foreign iterator.
Iter_drop ==
    /\ mIter # None
    /\ Returns([op |-> "drop"], MOut(None, m_delete_local_ref(mIter.iter, EnvNow)))
    /\ mIter' = None
    /\ UNCHANGED <<mAdapter, mYielded, mEnded>>
    /\ UNCHANGED <<gvars, lvars, vvars, dvars>>

MapNext ==
    \/ Map_from_env
    \/ \E k \in Keys : Map_get(k)
    \/ \E k \in Keys : \E v \in Vals : Map_put(k, v)
    \/ \E k \in Keys : Map_remove(k)
    \/ Map_iter
    \/ Iter_next
    \/ Iter_drop

\* --------------------------------------------------------- specifications

\* One global reference shared by the threads.
Init == GlobalInit /\ LocalInit /\ ValueInit /\ DescInit /\ MapInit

Next == GlobalNext

Spec == Init /\ [][Next]_vars

\* One call context on an attached thread; the global reference is idle.
InitCall ==
    /\ GlobalInit
    /\ held["t1"] = 1
    /\ attached = [t \in Threads |-> TRUE]
    /\ LocalInit
    /\ ValueInit
    /\ DescInit
    /\ MapInit

\* Local-reference guards of one call context.
NextLocal == LocalNext

SpecLocal == InitCall /\ [][NextLocal]_vars

\* Guard teardown of both kinds.
NextTeardown ==
    \/ GlobalNext
    \/ LocalStep(1)

SpecTeardown == Init /\ [][NextTeardown]_vars

\* Value unions built from native values and narrowed again.
NextValue == ValueNext

SpecValue == InitCall /\ [][NextValue]_vars

\* Descriptor resolution in one call context.
NextDesc == DescNext

SpecDesc == InitCall /\ [][NextDesc]_vars

\* A map adapter over a foreign map of any content, and its iterator.
InitMap ==
    /\ GlobalInit
    /\ held["t1"] = 1
    /\ attached = [t \in Threads |-> TRUE]
    /\ LocalInit
    /\ ValueInit
    /\ DescInit
    /\ \E map \in [Keys -> Vals \cup {NoVal}] : MapStart(map)

NextMap == MapNext

SpecMap == InitMap /\ [][NextMap]_vars

\* ------------------------------------------------------------ properties

IsDelete(e) == e[2] = "DeleteGlobalRef"

\* The number of DeleteGlobalRef calls made so far.
DeleteCalls == Len(SelectSeq(events, IsDelete))

AttachFailed ==
    \E i \in 1..Len(events) : events[i][2] = "AttachCurrentThread" /\ events[i][3] = "Err"

\* Every handle (the original and the clones) is dropped and no drop is running.
AllDropped == dropped = clones + 1 /\ \A t \in Threads : pc[t] = "idle"

\* C1 as stated: the delete-global-reference call occurs exactly once, and
\* only after all N+1 handles have been dropped.
C1_ExactlyOnce ==
    /\ DeleteCalls <= 1
    /\ DeleteCalls = 1 => dropped = clones + 1 /\ \A t \in Threads : held[t] = 0
    /\ AllDropped => DeleteCalls = 1

\* C1 amended: the delete-global-reference call occurs at most once and only
\* after all N+1 handles have been dropped, whatever the drop order; once all
\* are dropped it has occurred exactly once unless the last drop ran on a
\* detached thread whose attach failed, and then it has not occurred.
C1_OnceUnlessAttachFails ==
    /\ DeleteCalls <= 1
    /\ DeleteCalls = 1 => dropped = clones + 1 /\ \A t \in Threads : held[t] = 0
    /\ AllDropped => (DeleteCalls = 1 <=> ~AttachFailed)

C1_Witness == AllDropped /\ clones >= 2 /\ DeleteCalls = 1

\* C4: no deref of a live clone observes the reference after DeleteGlobalRef
\* was issued, and the reference stays registered while any clone exists.
C4_NoDerefAfterDelete ==
    /\ lastDeref.by # "none" => lastDeref.live
    /\ (\E t \in Threads : held[t] > 0) => globalLive /\ DeleteCalls = 0

\* A deref made by one thread after another handle was dropped elsewhere.
C4_Witness ==
    /\ lastDeref.by # "none"
    /\ lastDeref.dropped >= 1
    /\ \E t \in Threads : t # lastDeref.by /\ held[t] = 0 /\ pc[t] = "idle"

\* The VM calls thread t made in GlobalRefGuard::drop, in order.
CallsOf(t) ==
    LET Mine(e) == e[1] = t
        s == SelectSeq(events, Mine)
    IN  [i \in 1..Len(s) |-> <<s[i][2], s[i][3]>>]

\* C5: a last drop on a detached thread (whose attach succeeds) makes the
\* calls attach, delete, detach in that order and leaves the thread detached;
\* on an attached thread it makes the delete call alone and the thread stays
\* attached.
C5_AttachDeleteDetach ==
    \A t \in Threads :
        outcome[t] = "returned" =>
            LET k == CallsOf(t) IN
            /\ k[1] = <<"GetEnv", "Ok">> =>
                 /\ k = << <<"GetEnv", "Ok">>, <<"DeleteGlobalRef", "Ok">> >>
                 /\ attached[t]
            /\ (k[1] = <<"GetEnv", "Err">> /\ k[2] = <<"AttachCurrentThread", "Ok">>) =>
                 /\ k = << <<"GetEnv", "Err">>, <<"AttachCurrentThread", "Ok">>,
                          <<"DeleteGlobalRef", "Ok">>, <<"DetachCurrentThread", "Ok">> >>
                 /\ ~attached[t]

C5_Witness ==
    \E t \in Threads :
        /\ outcome[t] = "returned"
        /\ Len(CallsOf(t)) = 4
        /\ CallsOf(t)[2] = <<"AttachCurrentThread", "Ok">>
        /\ clones >= 1

\* C2 as stated: a guard that ended, by forget or by drop, has had exactly
\* one delete_local_ref call.
C2_ExactlyOneDelete ==
    \A g \in Guards :
        guardState[g] \in {"forgotten", "dropped"} => localDeletes[g] = 1

\* C2 amended: delete_local_ref is called at most once per guard: exactly
\* once when the guard ends by drop, and not at all when it ends by forget.
C2_OneDeleteOnDropNoneOnForget ==
    \A g \in Guards :
        /\ localDeletes[g] <= 1
        /\ guardState[g] = "dropped" => localDeletes[g] = 1
        /\ guardState[g] = "forgotten" => localDeletes[g] = 0
        /\ guardState[g] \in {"none", "wrapped"} => localDeletes[g] = 0

C2_Witness ==
    \E g, h \in Guards : guardState[g] = "dropped" /\ guardState[h] = "forgotten"

\* C3: forget returns a handle with the guard's raw pointer, leaves the local
\* reference table as it was, and no delete_local_ref call is ever made for a
\* forgotten guard.
C3_ForgetStep ==
    \A g \in Guards :
        guardState'[g] = "forgotten" =>
            /\ localDeletes'[g] = 0
            /\ forgetRet'[g] = from_raw(guardObj[g])
            /\ guardObj[g] \in localRefs'
            /\ guardState[g] = "wrapped" => localRefs' = localRefs

\* C3, as a property of every step: forget cancels the release obligation.
C3_ForgetCancels == [][C3_ForgetStep]_vars

C3_Witness ==
    \E g, h \in Guards :
        /\ guardState[g] = "forgotten"
        /\ forgetRet[g].internal \in Ptrs
        /\ guardState[h] = "dropped"

\* C6: a release error met during the drop of a local-reference guard, or an
\* error met during the drop of the last global-reference clone, is logged,
\* the drop returns, and nothing is raised to the caller.
C6_TeardownNeverFails ==
    /\ \A g \in Guards :
        /\ localOutcome[g] \in {"none", "returned"}
        /\ guardState[g] = "dropped" => localOutcome[g] = "returned"
        /\ localRes[g] = "Err" => localLogged[g] = 1
    /\ \A t \in Threads :
        /\ outcome[t] \in {"none", "running", "returned"}
        /\ (outcome[t] = "returned" /\ res[t] = "Err") =>
              \E i \in 1..Len(log) : log[i] = "debug: error dropping global ref"

C6_Witness ==
    /\ guardState[1] = "dropped" /\ localRes[1] = "Err"
    /\ \E t \in Threads : outcome[t] = "returned" /\ res[t] = "Err"

Narrowed == vacc # <<"none", "none">>

\* The narrowings that give back the native type a union was built from.
Matching(T) ==
    CASE T = "bool" -> {<<"method", "z">>}
      [] T = "jboolean" -> {<<"try_from", "jboolean">>}
      [] T = "jbyte" -> {<<"method", "b">>, <<"try_from", "jbyte">>}
      [] T = "jchar" -> {<<"method", "c">>, <<"try_from", "jchar">>}
      [] T = "jshort" -> {<<"method", "s">>, <<"try_from", "jshort">>}
      [] T = "jint" -> {<<"method", "i">>, <<"try_from", "jint">>}
      [] T = "jlong" -> {<<"method", "j">>, <<"try_from", "jlong">>}
      [] T = "jfloat" -> {<<"method", "f">>, <<"try_from", "jfloat">>}
      [] T = "jdouble" -> {<<"method", "d">>, <<"try_from", "jdouble">>}
      [] T = "unit" -> {<<"method", "v">>, <<"try_from", "unit">>}
      [] T = "JObject" -> {<<"method", "l">>, <<"try_from", "JObject">>}

\* C7: a union built from a native primitive and narrowed with the accessor
\* of the same kind gives the native value back; between the two native
\* forms of a boolean, true corresponds to JNI_TRUE and false to JNI_FALSE.
C7_RoundTrip ==
    (Narrowed /\ vnative.type # "JObject") =>
        /\ vacc \in Matching(vnative.type) => vres = Ok(vnative.val)
        /\ (vnative.type = "bool" /\ vacc = <<"try_from", "jboolean">>) =>
              vres = Ok(IF vnative.val THEN JNI_TRUE ELSE JNI_FALSE)
        /\ (vnative.type = "jboolean" /\ vnative.val \in {JNI_FALSE, JNI_TRUE}
              /\ vacc = <<"method", "z">>) =>
              vres = Ok(vnative.val = JNI_TRUE)

C7_Witness ==
    /\ Narrowed
    /\ vnative.type = "bool"
    /\ vnative.val = TRUE
    /\ vacc = <<"method", "z">>
    /\ vres.ok

\* The variant a narrowing is for.
VariantOf(n) ==
    CASE n[2] \in {"l", "JObject"} -> "Object"
      [] n[2] \in {"z", "jboolean"} -> "Bool"
      [] n[2] \in {"b", "jbyte"} -> "Byte"
      [] n[2] \in {"c", "jchar"} -> "Char"
      [] n[2] \in {"s", "jshort"} -> "Short"
      [] n[2] \in {"i", "jint"} -> "Int"
      [] n[2] \in {"j", "jlong"} -> "Long"
      [] n[2] \in {"f", "jfloat"} -> "Float"
      [] n[2] \in {"d", "jdouble"} -> "Double"
      [] n[2] \in {"v", "unit"} -> "Void"

\* The names by which an error may call the kind an accessor expects.
KindNames(tag) ==
    CASE tag = "Object" -> {"object"}
      [] tag = "Bool" -> {"bool"}
      [] tag = "Byte" -> {"byte", "jbyte"}
      [] tag = "Char" -> {"char", "jchar"}
      [] tag = "Short" -> {"short", "jshort"}
      [] tag = "Int" -> {"int", "jint"}
      [] tag = "Long" -> {"long", "jlong"}
      [] tag = "Float" -> {"float", "jfloat"}
      [] tag = "Double" -> {"double", "jdouble"}
      [] tag = "Void" -> {"void"}

\* C8: narrowing a union with the accessor of another kind returns a
\* WrongJValueType error that names the accessor's kind as expected and the
\* type_name of the active variant as actual; no value is produced.
C8_MismatchIsError ==
    (Narrowed /\ VariantOf(vacc) # jv.tag) =>
        /\ ~vres.ok
        /\ vres.err[1] = "WrongJValueType"
        /\ vres.err[2] \in KindNames(VariantOf(vacc))
        /\ vres.err[3] = type_name(jv)
        /\ vres.err[3] \in KindNames(jv.tag)

C8_Witness ==
    /\ Narrowed
    /\ jv.tag = "Bool"
    /\ vacc = <<"method", "b">>
    /\ vres = Err(WrongJValueType("jbyte", "bool"))

\* C9: a union built from the null object handle is an object variant; l()
\* succeeds on it and returns a handle with the null raw pointer, which is
\* a value and not the absent state of an optional.
C9_NullObject ==
    (Narrowed /\ vnative.type = "JObject" /\ vnative.val = JObject_null
       /\ vacc = <<"method", "l">>) =>
        /\ jv.tag = "Object"
        /\ vres.ok
        /\ into_raw(vres.val) = NULL
        /\ vres.val # None
        /\ Some(vres.val) # None

C9_Witness ==
    /\ Narrowed
    /\ vnative.type = "JObject"
    /\ vnative.val = JObject_null
    /\ vacc = <<"method", "l">>
    /\ vres = Ok(from_raw(NULL))

Resolved == dDesc # None

\* C10 as stated: resolving an existing handle, a reference to a handle or
\* to a local or global guard, or an identifier returns a non-owning
\* reference to the same handle (the same identifier), makes no foreign
\* call, adds no local reference and does not fail.
C10_ResolvedIsIdentity ==
    (Resolved /\ dLive /\ dDesc.form \in {"JObject", "id"} \cup RefForms) =>
        /\ dRes.ok
        /\ dCalls = <<>>
        /\ dRefs = dBefore
        /\ IF dDesc.form = "id"
           THEN dRes.val = JMethodID(dDesc.id)
           ELSE dRes.val = [own |-> "Reference", raw |-> dDesc.raw]

\* C10 amended: resolving a reference to a handle (&T), a reference to a
\* local or global guard, or an identifier is a pure identity (same handle
\* or identifier, non-owning, no foreign call, no new local reference, no
\* failure).  A JObject handle passed by value as a class descriptor is
\* resolved with one get_object_class call: it fails with that call's
\* error, or returns an owned reference to a new local reference.
C10_ReferenceIsIdentity ==
    (Resolved /\ dLive) =>
        /\ dDesc.form \in RefForms \cup {"id"} =>
              /\ dRes.ok
              /\ dCalls = <<>>
              /\ dRefs = dBefore
              /\ IF dDesc.form = "id"
                 THEN dRes.val = JMethodID(dDesc.id)
                 ELSE dRes.val = [own |-> "Reference", raw |-> dDesc.raw]
        /\ dDesc.form = "JObject" =>
              /\ dCalls = << <<"GetObjectClass", dDesc.raw>> >>
              /\ IF dRes.ok
                 THEN /\ dRes.val.own = "Owned"
                      /\ dRes.val.raw \notin dBefore
                      /\ dRefs = dBefore \cup {dRes.val.raw}
                 ELSE dRefs = dBefore

C10_Witness ==
    /\ Resolved
    /\ dLive
    /\ dDesc.form = "&AutoLocal"
    /\ dRes = Ok([own |-> "Reference", raw |-> dDesc.raw])
    /\ Cardinality(dRefs) >= 2

\* ---- JMap ----

MapOps == {"get", "put", "remove"}

\* The latest operation was a get, put or remove.
IsMapOp == mOp # None /\ mOp.op \in MapOps

\* No foreign call of the latest operation failed.
NoFailure == \A i \in 1..Len(mCalls) : mCalls[i].ok

\* C11: when the foreign method of a get, put or remove returns the foreign
\* null (the map has no mapping for the key), the operation returns
\* Ok(None): not an error and not Some of a handle.
C11_NullIsAbsent ==
    (IsMapOp /\ NoFailure /\ mPrevMap[mOp.key] = NoVal) => mRet = Ok(None)

\* get of a key the map does not hold returns Some of the null handle.
C11_Witness ==
    /\ IsMapOp
    /\ mOp.op = "get"
    /\ NoFailure
    /\ mPrevMap[mOp.key] = NoVal
    /\ mRet = Ok(Some(JObject_null))

\* C12: from_env resolves the map class with one FindClass call and the
\* get, put and remove identifiers with one GetMethodID call each, on that
\* class; every later get, put and remove makes exactly one foreign call,
\* the method call on the wrapped map with the identifier from_env cached,
\* and no class or method-id lookup.
C12_CachedIds ==
    /\ (mOp # None /\ mOp.op = "from_env" /\ mRet.ok) =>
        /\ Len(mCalls) = 4
        /\ mCalls[1].fn = "FindClass"
        /\ mCalls[1].args = <<"java/util/Map">>
        /\ \A i \in 2..4 :
            /\ mCalls[i].fn = "GetMethodID"
            /\ mCalls[i].args[1] = mAdapter.class
        /\ <<mCalls[2].args[2], mCalls[3].args[2], mCalls[4].args[2]>>
              = <<"get", "put", "remove">>
        /\ mAdapter.get = JMethodID(<<"java/util/Map", "get", SigObjToObj>>)
        /\ mAdapter.put = JMethodID(<<"java/util/Map", "put", SigPut>>)
        /\ mAdapter.remove = JMethodID(<<"java/util/Map", "remove", SigObjToObj>>)
    /\ IsMapOp =>
        /\ Len(mCalls) = 1
        /\ mCalls[1].fn = "CallObjectMethodA"
        /\ mCalls[1].args[1] = mAdapter.internal
        /\ mCalls[1].args[2] = mAdapter[mOp.op]

C12_Witness ==
    /\ IsMapOp
    /\ mOp.op = "remove"
    /\ mOps >= 4
    /\ NoFailure
    /\ mCalls[1].args[2] = JMethodID(<<"java/util/Map", "remove", SigObjToObj>>)

\* The result of a map operation for a key whose value was v: absent for no
\* value, else Some of a live handle to the string v.
AgreesWith(ret, v) ==
    IF v = NoVal THEN ret = Ok(None)
    ELSE /\ ret.ok
         /\ ret.val.tag = "Some"
         /\ ret.val.val.internal \in Live(mTable)
         /\ ObjAt(mTable, ret.val.val.internal) = JString(v)

\* C13: the results of get, put and remove agree with a reference map: each
\* returns the value the key had before (absent if it had none), put leaves
\* the key with the new value, remove leaves it without one, get leaves the
\* map as it was.
C13_AgreesWithReference ==
    (IsMapOp /\ NoFailure) =>
        /\ AgreesWith(mRet, mPrevMap[mOp.key])
        /\ mMap = CASE mOp.op = "get" -> mPrevMap
                    [] mOp.op = "put" -> [mPrevMap EXCEPT ![mOp.key] = mOp.value]
                    [] mOp.op = "remove" -> [mPrevMap EXCEPT ![mOp.key] = NoVal]

\* Scenario A, second step: put of a new key into the empty map returns Some
\* of the null handle.
C13_Witness ==
    /\ IsMapOp
    /\ mOp.op = "put"
    /\ NoFailure
    /\ mPrevMap = [k \in Keys |-> NoVal]
    /\ mRet = Ok(Some(JObject_null))
    /\ mMap[mOp.key] = mOp.value

\* ---- JMapIter ----

IsNext == mOp # None /\ mOp.op = "next"

\* C14: while no foreign call has failed, the items an iterator has produced
\* are entries of the map, no entry is produced twice, and next() returns
\* None only once all n entries have been produced; so the first n calls of
\* next() produce the n entries, each once, in the order the runtime
\* chooses, and the call after them produces nothing.
C14_YieldsEachEntryOnce ==
    (mIter # None /\ mFailures = 0) =>
        /\ \A i \in 1..Len(mYielded) : mYielded[i] \in Entries(mMap)
        /\ \A i, j \in 1..Len(mYielded) : i # j => mYielded[i] # mYielded[j]
        /\ (IsNext /\ mRet = None) => Len(mYielded) = Cardinality(Entries(mMap))
        /\ (IsNext /\ mRet # None) =>
              PairOf(mRet, mTable) = mYielded[Len(mYielded)]

\* Scenario B: a map of two entries, two items produced, the third next()
\* returns None.
C14_Witness ==
    /\ mIter # None
    /\ mFailures = 0
    /\ Cardinality(Entries(mMap)) = 2
    /\ Len(mYielded) = 2
    /\ IsNext
    /\ mRet = None

\* The call c is the method `mid` called on the object `recv` without
\* arguments.
MethodCall(c, fn, recv, mid) ==
    /\ c.fn = fn
    /\ c.args = <<recv, mid, <<>> >>

\* C15: next() first calls hasNext on the iterator; when that call fails or
\* returns false it makes no other foreign call and produces no item; when
\* it returns true it calls next on the iterator, then getKey and then
\* getValue on the entry the next call returned, and produces the pair of
\* what those two returned.  Once an entry was obtained, the last call of
\* all releases its local reference.
C15_CallOrder ==
    IsNext =>
        /\ Len(mCalls) >= 1
        /\ MethodCall(mCalls[1], "CallBooleanMethodA", mIter.iter, mIter.has_next)
        /\ IF ~mCalls[1].ok \/ mCalls[1].ret = VBool(JNI_FALSE)
           THEN Len(mCalls) = 1 /\ mRet = None
           ELSE /\ Len(mCalls) >= 2
                /\ MethodCall(mCalls[2], "CallObjectMethodA", mIter.iter, mIter.next)
                /\ IF ~mCalls[2].ok
                   THEN Len(mCalls) = 2
                   ELSE LET entry == mCalls[2].ret.val.internal
                        IN /\ Len(mCalls) >= 4
                           /\ MethodCall(mCalls[3], "CallObjectMethodA", entry,
                                         mIter.get_key)
                           /\ mCalls[Len(mCalls)] = Call("DeleteLocalRef", <<entry>>, TRUE)
                           /\ IF ~mCalls[3].ok
                              THEN Len(mCalls) = 4
                              ELSE /\ Len(mCalls) = 5
                                   /\ MethodCall(mCalls[4], "CallObjectMethodA", entry,
                                                 mIter.get_value)
                                   /\ mCalls[4].ok =>
                                         mRet = Some(<<mCalls[3].ret.val, mCalls[4].ret.val>>)

C15_Witness ==
    /\ IsNext
    /\ NoFailure
    /\ Len(mCalls) = 5
    /\ mRet.tag = "Some"
    /\ PairOf(mRet, mTable) = <<"y", "2">>

\* C16: when a foreign call of next() fails (hasNext, next, getKey or
\* getValue), next() returns None: no item and no error.
C16_FailureEndsSequence ==
    (IsNext /\ ~NoFailure) => mRet = None

\* getValue fails after hasNext, next and getKey succeeded.
C16_Witness ==
    /\ IsNext
    /\ Len(mCalls) = 5
    /\ ~mCalls[4].ok
    /\ mRet = None

IsIter == mOp # None /\ mOp.op = "iter"

\* The JNI functions the latest operation called, in order.
Fns == [i \in 1..Len(mCalls) |-> mCalls[i].fn]

\* C17: iter() looks up hasNext and next on java/util/Iterator and getKey
\* and getValue on java/util/Map$Entry (one GetMethodID each, on every
\* call of iter), then pushes a local frame of capacity 16, calls entrySet
\* on the map and iterator on the entry set inside it, and pops the frame
\* with the iterator.  Whether iter() succeeds or fails, the table is left
\* as it was, plus, on success, the one reference to the iterator.
C17_IterInFrame ==
    IsIter =>
        /\ mTable = mPrevTable \cup
              (IF mRet.ok THEN {<<mRet.val.iter, JIterObj>>} ELSE {})
        /\ \A i \in 1..Len(mCalls) :
              mCalls[i].fn = "CallObjectMethodA" =>
                  /\ \E j \in 1..(i - 1) :
                        /\ mCalls[j].fn = "PushLocalFrame"
                        /\ mCalls[j].args = <<16>>
                        /\ mCalls[j].ok
                  /\ \E j \in (i + 1)..Len(mCalls) : mCalls[j].fn = "PopLocalFrame"
        /\ mRet.ok =>
              /\ Fns = <<"FindClass", "GetMethodID", "GetMethodID",
                         "FindClass", "GetMethodID", "GetMethodID",
                         "PushLocalFrame",
                         "GetMethodID", "CallObjectMethodA",
                         "FindClass", "GetMethodID", "DeleteLocalRef",
                         "CallObjectMethodA",
                         "PopLocalFrame", "DeleteLocalRef", "DeleteLocalRef">>
              /\ mRet.val.has_next = JMethodID(<<"java/util/Iterator", "hasNext", "()Z">>)
              /\ mRet.val.next =
                    JMethodID(<<"java/util/Iterator", "next", "()Ljava/lang/Object;">>)
              /\ mRet.val.get_key =
                    JMethodID(<<"java/util/Map$Entry", "getKey", "()Ljava/lang/Object;">>)
              /\ mRet.val.get_value =
                    JMethodID(<<"java/util/Map$Entry", "getValue", "()Ljava/lang/Object;">>)
              /\ mCalls[9].args[1] = mAdapter.internal
              /\ mCalls[9].args[2].internal[2] = "entrySet"
              /\ mCalls[13].args[1] = mCalls[9].ret.val.internal
              /\ mCalls[13].args[2].internal[2] = "iterator"
              /\ mCalls[14].args = <<mCalls[13].ret.val.internal>>

C17_Witness ==
    /\ IsIter
    /\ mRet.ok
    /\ Len(mCalls) = 16
    /\ Cardinality(mPrevTable) >= 3
    /\ Cardinality(mTable) = Cardinality(mPrevTable) + 1

\* ---- method, field and exception descriptors ----

\* What the latest lookup returned and how it left the runtime.
Returned_d == Outcome(dRes, dRefs, dCalls)

\* C18: resolving a (class, name, signature) tuple resolves the class
\* descriptor first (with the calls and the failure of that resolution) and
\* then makes exactly one lookup call with the resulting class, the name and
\* the signature, whose identifier it returns; resolving a (class,
\* signature) pair as a constructor has the outcomes (result, table and
\* calls) of resolving (class, "<init>", signature).
C18_TupleLookup ==
    (Resolved /\ dLive) =>
        /\ dDesc.form = "member" =>
              \E c \in lookup_class(dDesc.class, dBefore) :
                  IF ~c.res.ok THEN Returned_d = c
                  ELSE LET raw == as_raw(c.res.val)
                           n == Len(c.calls)
                       IN /\ Len(dCalls) >= n + 1
                          /\ SubSeq(dCalls, 1, n) = c.calls
                          /\ SubSeq(dCalls[n + 1], 1, 4) =
                                <<MemberFn(dDesc.kind), raw, dDesc.name, dDesc.sig>>
                          /\ \A i \in (n + 2)..Len(dCalls) : dCalls[i][1] = "DeleteLocalRef"
                          /\ dRes.ok =>
                                dRes.val = JMethodID(<<dDesc.kind, raw, dDesc.name, dDesc.sig>>)
        /\ dDesc.form = "ctor" =>
              Returned_d \in lookup(MethodTuple(dDesc.class, "<init>", dDesc.sig), dBefore)

\* A constructor pair over a class name: FindClass, GetMethodID of <init>,
\* and the release of the class.
C18_Witness ==
    /\ Resolved
    /\ dLive
    /\ dDesc = [form |-> "ctor", class |-> [form |-> "name", name |-> "java/lang/String"],
                sig |-> "()V"]
    /\ dRes.ok
    /\ Len(dCalls) = 3
    /\ dCalls[1] = <<"FindClass", "java/lang/String">>
    /\ dCalls[2] = <<"GetMethodID", dRes.val.internal[2], "<init>", "()V", "Ok">>
    /\ dCalls[3] = <<"DeleteLocalRef", dRes.val.internal[2]>>

\* C19: resolving (class, message) first makes a new string of the message,
\* then resolves the class and invokes its (Ljava/lang/String;)V
\* constructor with that string, and returns the new throwable Owned (a
\* guarded live local reference); an Exception resolves as the pair of its
\* class and message, a message alone as the pair of
\* java/lang/RuntimeException and the message.
C19_ExceptionLookup ==
    (Resolved /\ dLive) =>
        /\ dDesc.form = "pair" =>
              /\ dCalls # <<>>
              /\ dCalls[1][1] = "NewString"
              /\ dCalls[1][2] = dDesc.msg
              /\ dRes.ok =>
                    LET jmsg == dCalls[1][3]
                    IN /\ jmsg \notin dBefore \cup {NULL}
                       /\ dRes.val.own = "Owned"
                       /\ dRes.val.raw \in dRefs \ (dBefore \cup {jmsg})
                       /\ \E c \in lookup_class(dDesc.class, dBefore \cup {jmsg}) :
                             /\ c.res.ok
                             /\ Len(dCalls) >= Len(c.calls) + 2
                             /\ SubSeq(dCalls, 2, Len(c.calls) + 1) = c.calls
                             /\ dCalls[Len(c.calls) + 2] =
                                   <<"NewObject", as_raw(c.res.val),
                                     "(Ljava/lang/String;)V", <<jmsg>>, dRes.val.raw>>
        /\ dDesc.form = "Exception" =>
              Returned_d \in lookup([form |-> "pair",
                                     class |-> [form |-> "name", name |-> dDesc.class],
                                     msg |-> dDesc.msg], dBefore)
        /\ dDesc.form \in MsgForms =>
              Returned_d \in lookup([form |-> "pair",
                                     class |-> [form |-> "name",
                                                name |-> "java/lang/RuntimeException"],
                                     msg |-> dDesc.msg], dBefore)

\* Scenario C: ("java/lang/IllegalStateException", "bad state").
C19_Witness ==
    /\ Resolved
    /\ dLive
    /\ dDesc = [form |-> "pair",
                class |-> [form |-> "name", name |-> "java/lang/IllegalStateException"],
                msg |-> "bad state"]
    /\ dRes.ok
    /\ Len(dCalls) = 4
    /\ dCalls[1][1] = "NewString"
    /\ dCalls[2] = <<"FindClass", "java/lang/IllegalStateException">>
    /\ dCalls[3][1] = "NewObject"
    /\ dCalls[4][1] = "DeleteLocalRef"
    /\ dRes.val = [own |-> "Owned", raw |-> dCalls[3][5]]

IsRelease(c) == c[1] = "DeleteLocalRef"
IsLookupCall(c) == c[1] # "DeleteLocalRef"
IsClassCall(c) == c[1] \in {"FindClass", "GetObjectClass"}
IsMemberCall(c) == c[1] \in {MemberFn(k) : k \in MemberKinds}
IsNewString(c) == c[1] = "NewString"
IsNewObject(c) == c[1] = "NewObject"

\* The call c failed, for the calls whose record tells.
CallFailed(c) ==
    CASE IsNewString(c) -> c[3] = NULL
      [] IsNewObject(c) -> c[5] = NULL
      [] IsMemberCall(c) -> c[5] = "Err"
      [] OTHER -> FALSE

\* The error a failing call returns.
ErrOf(c) ==
    CASE c[1] = "FindClass" -> "ClassNotFound"
      [] c[1] = "GetObjectClass" -> "NullPtr"
      [] c[1] \in {"GetMethodID", "GetStaticMethodID"} -> "MethodNotFound"
      [] c[1] \in {"GetFieldID", "GetStaticFieldID"} -> "FieldNotFound"
      [] OTHER -> "JavaException"

\* Each level of the descriptor makes at most one call: one class lookup,
\* one member lookup, one string construction, one object construction.
OneCallPerLevel ==
    /\ Len(SelectSeq(dCalls, IsClassCall)) <= 1
    /\ Len(SelectSeq(dCalls, IsMemberCall)) <= 1
    /\ Len(SelectSeq(dCalls, IsNewString)) <= 1
    /\ Len(SelectSeq(dCalls, IsNewObject)) <= 1

\* The form of the class descriptor inside the descriptor d.
ClassForm(d) ==
    CASE d.form \in {"member", "ctor", "pair"} -> d.class.form
      [] d.form \in {"Exception"} \cup MsgForms -> "name"
      [] OTHER -> d.form

\* C20 as stated: a resolution that fails returns the error of the call
\* that failed, that call is the last foreign call it makes, and each level
\* of the descriptor makes at most one call.
C20_NothingAfterFailure ==
    (Resolved /\ dLive) =>
        /\ OneCallPerLevel
        /\ ~dRes.ok =>
              /\ dCalls # <<>>
              /\ IsLookupCall(dCalls[Len(dCalls)])
              /\ dRes.err = ErrOf(dCalls[Len(dCalls)])
              /\ \A i \in 1..(Len(dCalls) - 1) : ~CallFailed(dCalls[i])

\* C20 amended: a resolution that fails returns the error of the lookup or
\* construction call that failed; no call before it failed and no lookup or
\* construction call follows it; each level makes at most one such call.
\* The one foreign call that can follow the failure is a single
\* delete_local_ref, which releases the class reference this resolution
\* obtained for a class given by name or as a JObject.
C20_NoLookupAfterFailure ==
    (Resolved /\ dLive) =>
        /\ OneCallPerLevel
        /\ ~dRes.ok =>
              LET lk == SelectSeq(dCalls, IsLookupCall)
                  rel == SelectSeq(dCalls, IsRelease)
              IN /\ lk # <<>>
                 /\ dRes.err = ErrOf(lk[Len(lk)])
                 /\ \A i \in 1..(Len(lk) - 1) : ~CallFailed(lk[i])
                 /\ Len(rel) <= 1
                 /\ rel # <<>> =>
                       /\ dCalls[Len(dCalls)] = rel[1]
                       /\ rel[1][2] \notin dBefore
                       /\ ClassForm(dDesc) \in {"name", "JObject"}
                       /\ Len(SelectSeq(lk, IsClassCall)) = 1

\* The method lookup on a class given by name fails: the class reference is
\* released after the failing call.
C20_Witness ==
    /\ Resolved
    /\ dLive
    /\ dDesc.form = "member"
    /\ dRes = Err("MethodNotFound")
    /\ Len(dCalls) = 3
    /\ dCalls[1] = <<"FindClass", "java/lang/String">>
    /\ dCalls[2][5] = "Err"
    /\ dCalls[3] = <<"DeleteLocalRef", dCalls[2][2]>>

\* ---- the drop of a resolved value ----

\* The latest step was the drop of a lookup's result.
WasDropped == dDrop # None

\* C21: resolving a class name makes exactly one FindClass call and, when it
\* succeeds, returns an Owned handle to the one new local reference; the
\* drop of that value makes exactly one DeleteLocalRef call, for the class
\* that was looked up.  The drop of a Reference makes no call at all.
C21_NameIsOwnedAndReleased ==
    /\ (Resolved /\ dLive /\ dDesc.form = "name") =>
          /\ dCalls = << <<"FindClass", dDesc.name>> >>
          /\ IF dRes.ok
             THEN /\ dRes.val.own = "Owned"
                  /\ as_raw(dRes.val) \notin dBefore
                  /\ dRefs = dBefore \cup {as_raw(dRes.val)}
             ELSE dRefs = dBefore
    /\ (WasDropped /\ dDrop.form = "name" /\ dDrop.res.ok) =>
          dDrop.calls = << <<"DeleteLocalRef", as_raw(dDrop.res.val)>> >>
    /\ (WasDropped /\ dDrop.form \in RefForms) =>
          /\ dDrop.res.val.own = "Reference"
          /\ dDrop.calls = <<>>
          /\ dDrop.after = dDrop.before

\* A class looked up by name was dropped and its reference deleted: the
\* table is the one before the lookup.
C21_Witness ==
    /\ WasDropped
    /\ dDrop.form = "name"
    /\ dDrop.res.ok
    /\ Len(dDrop.calls) = 1
    /\ dDrop.before # {}
    /\ dDrop.after = dDrop.before

\* ---- to_jni ----

\* to_jni has been applied to a boolean union.
BoolToJni == jv # None /\ jv.tag = "Bool" /\ vjni # None

\* C22 as stated: for every boolean union, to_jni stores one byte that is 0
\* or 1, and z() is true exactly when that byte is 1.
C22_BoolByteIsZeroOrOne ==
    BoolToJni =>
        /\ vjni.field = "b"
        /\ vjni.val \in {0, 1}
        /\ acc_z(jv) = Ok(vjni.val = 1)

\* A union made from the jboolean 2: to_jni stores the byte 2, and z() is
\* false.
C22_Witness ==
    /\ BoolToJni
    /\ vnative.type = "jboolean"
    /\ vnative.val = 2
    /\ vjni = jvalue("b", 2)
    /\ acc_z(jv) = Ok(FALSE)

\* ---- the end of the sequence ----

\* C23 as stated: once a next() of an iterator has returned no item, every
\* later next() of that iterator returns no item.
C23_EndIsTerminal ==
    [][(mIter # None /\ mEnded /\ mOps' = mOps + 1 /\ mOp'.op = "next")
          => mRet' = None]_vars

\* A next() that returned an item although an earlier next() of the same
\* iterator had returned none.
C23_Witness ==
    /\ IsNext
    /\ mEnded
    /\ mRet # None
    /\ mRet.tag = "Some"
    /\ NoFailure
    /\ mFailures = 1

\* ---- the entry of a next() ----

\* The calls of the latest operation that are successful next-element calls.
NextCalls ==
    {i \in 1..Len(mCalls) :
        /\ mCalls[i].fn = "CallObjectMethodA"
        /\ mCalls[i].args[2].internal[2] = "next"
        /\ mCalls[i].ok}

\* The DeleteLocalRef calls of the latest operation.
Deletes == {i \in 1..Len(mCalls) : mCalls[i].fn = "DeleteLocalRef"}

\* C24: in a next() whose next-element call succeeds, the reference to the
\* entry is deleted exactly once, by the last foreign call of next(): after
\* the getKey and getValue calls on the entry when both succeed, and also
\* when getKey or getValue fails.  A next() without an entry deletes nothing.
C24_EntryReleasedOnce ==
    IsNext =>
        /\ NextCalls = {} => Deletes = {}
        /\ \A i \in NextCalls :
              LET entry == mCalls[i].ret.val.internal
                  last == Len(mCalls)
              IN /\ i < last
                 /\ Deletes = {last}
                 /\ mCalls[last].args = <<entry>>
                 /\ entry \notin Live(mTable)
                 /\ \A j \in (i + 1)..(last - 1) :
                       /\ mCalls[j].fn = "CallObjectMethodA"
                       /\ mCalls[j].args[1] = entry
                 /\ mRet # None => last = i + 3

\* getKey fails on the entry the next-element call returned, and the entry
\* is released.
C24_Witness ==
    /\ IsNext
    /\ Len(mCalls) = 4
    /\ NextCalls = {2}
    /\ ~mCalls[3].ok
    /\ mCalls[4] = Call("DeleteLocalRef", <<mCalls[2].ret.val.internal>>, TRUE)
    /\ mRet = None

\* ---- the construction of the adapter ----

IsFromEnv == mOp # None /\ mOp.op = "from_env"

\* The calls of the latest operation that failed.
Failed == {i \in 1..Len(mCalls) : ~mCalls[i].ok}

\* C25: from_env fails exactly when the class lookup or one of the get, put
\* and remove lookups fails, with the error of that lookup; no lookup is made
\* after the failing one; when the class had been found, it is released by
\* one DeleteLocalRef, the last call, and the table is left as it was.
C25_FromEnvFailsClean ==
    IsFromEnv =>
        /\ mRet.ok <=> Failed = {}
        /\ mRet.ok =>
              /\ Fns = <<"FindClass", "GetMethodID", "GetMethodID", "GetMethodID">>
              /\ mTable = mPrevTable \cup {<<mRet.val.class, JClassObj("java/util/Map")>>}
        /\ ~mRet.ok =>
              /\ mTable = mPrevTable
              /\ mAdapter = None
              /\ \E i \in 1..Len(mCalls) :
                    /\ Failed = {i}
                    /\ \A j \in 1..(i - 1) : mCalls[j].fn # "DeleteLocalRef"
                    /\ IF i = 1
                       THEN /\ Fns = <<"FindClass">>
                            /\ mRet.err = "ClassNotFound"
                       ELSE /\ mCalls[i].fn = "GetMethodID"
                            /\ mCalls[i].args[2] = <<"get", "put", "remove">>[i - 1]
                            /\ mRet.err = "MethodNotFound"
                            /\ Len(mCalls) = i + 1
                            /\ mCalls[i + 1] =
                                  Call("DeleteLocalRef", <<mCalls[i].args[1]>>, TRUE)
                            /\ mCalls[i].args[1] \notin Live(mTable)

\* The lookup of put fails after the class and get were found: the class is
\* released and the table is the one before from_env.
C25_Witness ==
    /\ IsFromEnv
    /\ ~mRet.ok
    /\ Fns = <<"FindClass", "GetMethodID", "GetMethodID", "DeleteLocalRef">>
    /\ mTable = mPrevTable

\* ---- a last drop whose attach fails ----

\* The attach of the last drop, made by thread t, failed.
AttachFailedBy(t) ==
    Len(CallsOf(t)) >= 2 /\ CallsOf(t)[2] = <<"AttachCurrentThread", "Err">>

DebugLine == "debug: error dropping global ref"

\* The lines `line` of the log.
LogCount(line) == Cardinality({i \in 1..Len(log) : log[i] = line})

\* C26: when the last handle is dropped on a detached thread and the attach
\* fails, then from the failure on: the thread has made the get_env and the
\* attach call and no other, no DeleteGlobalRef is ever issued by any
\* thread, the reference stays registered, the thread stays detached and
\* holds no attach guard; the drop goes on to log the error once and
\* returns, without an error for the caller.
C26_AttachFailureIsLogged ==
    \A t \in Threads :
        AttachFailedBy(t) =>
            /\ CallsOf(t) = << <<"GetEnv", "Err">>, <<"AttachCurrentThread", "Err">> >>
            /\ DeleteCalls = 0
            /\ globalLive
            /\ ~attached[t]
            /\ ~guardHeld[t]
            /\ res[t] = "Err"
            /\ pc[t] \in {"log", "idle"}
            /\ pc[t] = "log" => outcome[t] = "running" /\ LogCount(DebugLine) = 0
            /\ pc[t] = "idle" => outcome[t] = "returned" /\ LogCount(DebugLine) = 1
            /\ \A u \in Threads : held[u] = 0 /\ (u # t => pc[u] = "idle")

\* The last of three handles was dropped on a detached thread, the attach
\* failed and the drop has returned.
C26_Witness ==
    \E t \in Threads :
        /\ AttachFailedBy(t)
        /\ outcome[t] = "returned"
        /\ clones = 2
        /\ log = <<"warn: dropping a GlobalRef in a detached thread", DebugLine>>

\* ---- the local references of an exception lookup ----

ExceptionForms == {"pair", "Exception"} \cup MsgForms

\* C27 as stated: after the lookup of an exception descriptor, successful or
\* failed, and the drop of its result, the table holds as many local
\* references as before the lookup.
C27_ExceptionLookupBalanced ==
    (WasDropped /\ dDrop.form \in ExceptionForms) =>
        Cardinality(dDrop.after) = Cardinality(dDrop.before)

\* A message was resolved to a throwable and the throwable was dropped and
\* deleted: the table holds one reference more than before the lookup, the
\* message string.
C27_Witness ==
    /\ WasDropped
    /\ dDrop.form = "&str"
    /\ dDrop.res.ok
    /\ dDrop.calls = << <<"DeleteLocalRef", as_raw(dDrop.res.val)>> >>
    /\ as_raw(dDrop.res.val) \notin dDrop.after
    /\ dDrop.before \subseteq dDrop.after
    /\ Cardinality(dDrop.after) = Cardinality(dDrop.before) + 1

====
